---- MODULE Spec2Model ----
(***************************************************************************)
(* A model of the CRM browser client (React pages talking to a hosted     *)
(* database through select / insert / update requests) and of the part of *)
(* the database it relies on: the leads table, row-level security and the *)
(* realtime change notifications.                                         *)
(*                                                                         *)
(* Every request is asynchronous: a handler issues it (stage "req"), the   *)
(* database serves it at some later moment (stage "resp") and the handler's*)
(* continuation runs when the response is delivered.  Requests in flight   *)
(* are served and delivered in any order.                                  *)
(***************************************************************************)
EXTENDS Integers, Sequences, FiniteSets, Bags, TLC

VARIABLES
  user,      \* the signed-in user of this browser session, or NoUser
  page,      \* the route that is rendered
  variant,   \* which of the two realtime dashboards the build routes "/" to
  leadsTbl,  \* database: the leads table, id -> row
  rowsTbl,   \* database: contacts, activities and lead_forms, id -> row
  nextId,    \* database: how many ids were handed out
  net,       \* requests and responses in flight
  notifs,    \* realtime notifications on their way to the subscribed dashboard
  deals,     \* state of DealsFlow
  dash,      \* state of Dashboard
  details,   \* state of LeadDetails
  forms,     \* state of Forms
  busy,      \* state of NewLead and NewContact
  lists,     \* state of the list pages Leads and Contacts
  contact,   \* state of ContactDetails
  fx         \* console lines, toasts and prompts of the last handler step, and the
             \* setter calls of a handler that has navigated away

vars == <<user, page, variant, leadsTbl, rowsTbl, nextId, net, notifs,
          deals, dash, details, forms, busy, lists, contact, fx>>

(***************************************************************************)
(* Bounds of the model.                                                    *)
(***************************************************************************)
\* ids the database may hand out (rows ever inserted, seeds included)
MaxIds == 3
\* requests that may be in flight at the same time
MaxInFlight == 2
\* realtime notifications that may be waiting for delivery
MaxNotifs == 2

Users == {"u1", "u2"}
NoUser == "none"

\* SQL NULL of a text column, and of a numeric column
NULL == "<null>"
NoNumber == <<>>
Num(n) == <<n>>

(***************************************************************************)
(* Status vocabularies of the pages.                                       *)
(***************************************************************************)
\* fault for C9: the status list of the new-lead form with a foreign status
NewLeadStatusesForeign ==
  <<"New Lead", "Contacted", "Prospecting", "Qualified", "Paid", "Lost Lead", "Postpone">>

NewLeadStatuses ==
  <<"New Lead", "Junk Lead", "Prospecting", "Qualified", "Paid", "Lost Lead", "Postpone">>

LeadDetailsStatuses ==
  <<"New Lead", "Junk Lead", "Prospecting", "Qualified", "Paid", "Lost Lead", "Postpone">>

DealsStatuses ==
  <<"New Lead", "Qualified", "Prospecting", "Paid", "Lost Lead", "Junk Lead">>

Range(s) == {s[i] : i \in DOMAIN s}


(***************************************************************************)
(* The database: the leads table, row-level security, select and update.   *)
(* leadsTbl maps the id of every stored lead to its row.                   *)
(***************************************************************************)
LeadRow(uid, status, revenue, source, specialization) ==
  [user_id |-> uid, status |-> status, revenue |-> revenue,
   source |-> source, specialization |-> specialization]

\* the row as a select returns it: the columns and the id
Returned(tbl, i) ==
  [id |-> i, user_id |-> tbl[i].user_id, status |-> tbl[i].status,
   revenue |-> tbl[i].revenue, source |-> tbl[i].source,
   specialization |-> tbl[i].specialization]

\* USING (auth.uid() = user_id): the rows a session may select, update, delete
Policy(tbl, jwt) == {i \in DOMAIN tbl : tbl[i].user_id = jwt}

\* .eq(column, value) filters, given as a record column -> value
Matches(row, filter) == \A c \in DOMAIN filter : row[c] = filter[c]

Selected(tbl, jwt, filter) ==
  {i \in Policy(tbl, jwt) : Matches(Returned(tbl, i), filter)}

RECURSIVE Ascending(_)
Ascending(S) ==
  IF S = {} THEN <<>>
  ELSE LET m == CHOOSE x \in S : \A y \in S : x <= y
       IN  <<m>> \o Ascending(S \ {m})

Reverse(s) == [i \in 1..Len(s) |-> s[Len(s) + 1 - i]]

\* ids are handed out in creation order, so created_at orders as the id does
SelectRows(tbl, jwt, filter, descending) ==
  LET ids == Ascending(Selected(tbl, jwt, filter))
      ord == IF descending THEN Reverse(ids) ELSE ids
  IN  [k \in 1..Len(ord) |-> Returned(tbl, ord[k])]

\* UPDATE ... SET payload: only the columns of the payload change
Patch(row, payload) ==
  [c \in DOMAIN row |-> IF c \in DOMAIN payload THEN payload[c] ELSE row[c]]

UpdateRows(tbl, jwt, filter, payload) ==
  [i \in DOMAIN tbl |->
     IF i \in Selected(tbl, jwt, filter) THEN Patch(tbl[i], payload) ELSE tbl[i]]

\* DELETE: the rows the policy and the filter select are removed
DeleteRows(tbl, jwt, filter) ==
  [i \in DOMAIN tbl \ Selected(tbl, jwt, filter) |-> tbl[i]]

(***************************************************************************)
(* Requests in flight.                                                      *)
(***************************************************************************)
NoCtx == [leadId |-> 0, status |-> "", leads |-> <<>>]

NoPayload == [c \in {} |-> NULL]

\* net is a bag: two equal requests in flight are two requests
InFlight == BagToSet(net)

CanIssue == BagCardinality(net) < MaxInFlight

Sent(msgs, m) == msgs (+) SetToBag({m})

Gone(msgs, m) == msgs (-) SetToBag({m})

\* the request carries the session's token (jwt): the database sees who asks
Request(origin, op, table, filter, payload, ctx) ==
  [stage |-> "req", origin |-> origin, op |-> op, table |-> table,
   filter |-> filter, payload |-> payload, jwt |-> user, live |-> TRUE,
   order |-> "", single |-> FALSE, ctx |-> ctx, ok |-> TRUE, data |-> <<>>]

\* .order('created_at', { ascending: false }) and .single()
Descending(req) == [req EXCEPT !.order = "created_at.desc"]

\* .order(field, { ascending: direction === 'asc' })
OrderedBy(req, field, direction) == [req EXCEPT !.order = field \o "." \o direction]

\* the modelled leads are named in the order they were created, so full_name
\* orders as created_at does
IsDescending(order) == order \in {"created_at.desc", "full_name.desc"}

Single(req) == [req EXCEPT !.single = TRUE]

\* a request sent by the continuation of m belongs to the component m belongs to
Followup(m, req) == [req EXCEPT !.live = m.live]

Response(m, ok, data) == [m EXCEPT !.stage = "resp", !.ok = ok, !.data = data]

\* a component that unmounts leaves its requests in flight; their continuations
\* still run, but its state setters no longer change anything on screen
RECURSIVE OrphanedFrom(_, _)
OrphanedFrom(msgs, todo) ==
  IF todo = {} THEN EmptyBag
  ELSE LET m == CHOOSE x \in todo : TRUE
           o == [m EXCEPT !.live = FALSE]
       IN  OrphanedFrom(msgs, todo \ {m}) (+) (o :> msgs[m])

\* fault for C18: a cleanup that aborts the requests of the component
OrphanedCancelled(msgs) == EmptyBag
Orphaned(msgs) == OrphanedFrom(msgs, BagToSet(msgs))

(***************************************************************************)
(* Component state.  A component that is not mounted holds its initial      *)
(* state: mounting constructs it anew.                                       *)
(***************************************************************************)
DealsInit == [leads |-> <<>>, loading |-> TRUE]

\* LeadDetails: the :id of the route, lead (null as <<>>), activities, the flags
DetailsInit ==
  [leadId |-> 0, lead |-> <<>>, activities |-> <<>>, loading |-> TRUE, saving |-> FALSE]

FormsInit == [forms |-> <<>>, loading |-> TRUE, creating |-> FALSE]

\* NewLead.loading; NewContact: loading, the ?leadId= of the route, leads, loadingLeads
BusyInit ==
  [newLead |-> FALSE, newContact |-> FALSE, leadIdFromQuery |-> 0, leads |-> <<>>,
   loadingLeads |-> TRUE]

\* Leads: the fetched leads, the flags, the search box, the status select, the
\* sort header and the column filters; Contacts: the fetched contacts
NoFilters == [c \in {} |-> ""]

ListsInit ==
  [leads |-> <<>>, contacts |-> <<>>, loading |-> TRUE, searchTerm |-> "",
   filterStatus |-> "", sortField |-> "created_at", sortDirection |-> "desc",
   filters |-> NoFilters]

\* ContactDetails: the :id of the route, contact (null as <<>>), leads, the flags
ContactInit ==
  [contactId |-> 0, contact |-> <<>>, leads |-> <<>>, loading |-> TRUE,
   saving |-> FALSE, loadingLeads |-> TRUE]

\* the effects a handler leaves outside React state: console lines and toasts
LogAndToast(logged, toasted) == {"console.error: " \o logged, "toast.error: " \o toasted}

Toast(toasted) == {"toast.success: " \o toasted}

(***************************************************************************)
(* The kanban board (DealsFlow).                                            *)
(***************************************************************************)
\* fetchLeads: select * from leads where user_id = user.id order by created_at desc
DealsFetchRequest(uid) ==
  Descending(Request("deals.fetchLeads", "select", "leads", [user_id |-> uid],
                     NoPayload, NoCtx))

\* fault for C1: updateLeadStatus without .eq('id', leadId)
UpdateLeadStatusRequestAnyRow(leadId, newStatus) ==
  Request("deals.updateLeadStatus", "update", "leads",
          [user_id |-> user],
          [status |-> newStatus],
          [leadId |-> leadId, status |-> newStatus, leads |-> deals.leads])

\* updateLeadStatus(leadId, newStatus): the request it sends; the closure keeps
\* leadId, newStatus and the leads of the render that created the handler
UpdateLeadStatusRequest(leadId, newStatus) ==
  Request("deals.updateLeadStatus", "update", "leads",
          [id |-> leadId, user_id |-> user],
          [status |-> newStatus],
          [leadId |-> leadId, status |-> newStatus, leads |-> deals.leads])

\* leads.map(lead => lead.id === leadId ? { ...lead, status: newStatus } : lead)
MapStatus(leads, leadId, newStatus) ==
  [k \in 1..Len(leads) |->
     IF leads[k].id = leadId THEN [leads[k] EXCEPT !.status = newStatus] ELSE leads[k]]

\* the cards of a column: leads.filter(lead => lead.status === status)
ColumnLeads(leads, status) == SelectSeq(leads, LAMBDA lead : lead.status = status)

\* the "{n} leads" line of each column, in the order of the columns
ColumnCounts(leads) == [c \in 1..Len(DealsStatuses) |-> Len(ColumnLeads(leads, DealsStatuses[c]))]

\* fault for C2: a drop that mirrors the new status before the update is awaited
HandleDropOptimistic(leadId, status) ==
  /\ page = "deals"
  /\ ~deals.loading
  /\ \E k \in 1..Len(deals.leads) :
       deals.leads[k].id = leadId /\ deals.leads[k].status \in Range(DealsStatuses)
  /\ status \in Range(DealsStatuses)
  /\ CanIssue
  /\ net' = Sent(net, UpdateLeadStatusRequest(leadId, status))
  /\ deals' = [deals EXCEPT !.leads = MapStatus(deals.leads, leadId, status)]
  /\ fx' = {}
  /\ UNCHANGED <<user, page, variant, leadsTbl, rowsTbl, nextId, notifs,
                 dash, details, forms, busy, lists, contact>>

\* handleDrop(e, status): a card of the rendered board (the columns render the
\* leads whose status is theirs) is dropped on a column
HandleDrop(leadId, status) ==
  /\ page = "deals"
  /\ ~deals.loading
  /\ \E k \in 1..Len(deals.leads) :
       deals.leads[k].id = leadId /\ deals.leads[k].status \in Range(DealsStatuses)
  /\ status \in Range(DealsStatuses)
  /\ CanIssue
  /\ net' = Sent(net, UpdateLeadStatusRequest(leadId, status))
  /\ fx' = {}
  /\ UNCHANGED <<user, page, variant, leadsTbl, rowsTbl, nextId, notifs,
                 deals, dash, details, forms, busy, lists, contact>>

\* fault for C3: a catch branch that also touches the local list
UpdateLeadStatusSettledAlways(m) ==
  /\ deals' = IF m.live
               THEN [deals EXCEPT !.leads = MapStatus(m.ctx.leads, m.ctx.leadId, m.ctx.status)]
               ELSE deals
  /\ fx' = IF m.ok THEN Toast("Lead status updated")
           ELSE LogAndToast("Error updating lead status", "Failed to update lead status")

\* the continuation of updateLeadStatus after the awaited update
UpdateLeadStatusSettled(m) ==
  IF m.ok
  THEN /\ deals' = IF m.live
                   THEN [deals EXCEPT !.leads = MapStatus(m.ctx.leads, m.ctx.leadId, m.ctx.status)]
                   ELSE deals
       /\ fx' = Toast("Lead status updated")
  ELSE /\ deals' = deals
       /\ fx' = LogAndToast("Error updating lead status", "Failed to update lead status")

UpdateLeadStatusDone(m) ==
  /\ m \in InFlight
  /\ m.stage = "resp"
  /\ m.origin = "deals.updateLeadStatus"
  /\ UpdateLeadStatusSettled(m)
  /\ net' = Gone(net, m)
  /\ UNCHANGED <<user, page, variant, leadsTbl, rowsTbl, nextId, notifs,
                 dash, details, forms, busy, lists, contact>>

\* the continuation of fetchLeads after the awaited select
DealsFetchSettled(m) ==
  IF m.ok
  THEN /\ deals' = IF m.live THEN [leads |-> m.data, loading |-> FALSE] ELSE deals
       /\ fx' = {}
  ELSE /\ deals' = IF m.live THEN [deals EXCEPT !.loading = FALSE] ELSE deals
       /\ fx' = LogAndToast("Error fetching leads", "Failed to load leads")

DealsFetchDone(m) ==
  /\ m \in InFlight
  /\ m.stage = "resp"
  /\ m.origin = "deals.fetchLeads"
  /\ DealsFetchSettled(m)
  /\ net' = Gone(net, m)
  /\ UNCHANGED <<user, page, variant, leadsTbl, rowsTbl, nextId, notifs,
                 dash, details, forms, busy, lists, contact>>

(***************************************************************************)
(* The dashboard aggregator.  The repository holds two dashboards that      *)
(* subscribe to realtime changes; variant "A" is the one with the           *)
(* 'leads-changes' channel, variant "B" the one built on useCallback.       *)
(* Numbers with one decimal are kept in tenths.                             *)
(***************************************************************************)
\* lead.revenue || 0
OrZero(revenue) == IF revenue = NoNumber THEN 0 ELSE revenue[1]

\* leads.filter(lead => statuses.includes(lead.status))
WithStatus(leads, statuses) == SelectSeq(leads, LAMBDA l : l.status \in statuses)

\* leads.reduce((sum, lead) => sum + (lead.revenue || 0), 0)
RECURSIVE SumRevenue(_)
SumRevenue(leads) ==
  IF leads = <<>> THEN 0 ELSE OrZero(Head(leads).revenue) + SumRevenue(Tail(leads))

\* parseFloat((num / den * 100).toFixed(1)), in tenths
ToFixed1(num, den) == (2000 * num + den) \div (2 * den)

ZeroStatsA ==
  [totalLeads |-> 0, totalValue |-> 0, activeLeads |-> 0, newLeads |-> 0,
   qualifiedLeads |-> 0, negotiationLeads |-> 0, closedLeads |-> 0, lostLeads |-> 0,
   conversionRate |-> 0, junkLeads |-> 0, prospectingLeads |-> 0, paidLeads |-> 0,
   postponeLeads |-> 0, revenueGenerated |-> 0, potentialRevenue |-> 0]

\* fault for C6: potentialRevenue summed over the Qualified leads only
ComputeStatsAQualifiedOnly(leads) ==
  [totalLeads       |-> Len(leads),
   totalValue       |-> SumRevenue(leads),
   activeLeads      |-> Len(SelectSeq(leads, LAMBDA l : /\ l.status # "Paid"
                                                       /\ l.status # "Lost Lead"
                                                       /\ l.status # "Junk Lead")),
   newLeads         |-> Len(WithStatus(leads, {"New Lead"})),
   qualifiedLeads   |-> Len(WithStatus(leads, {"Qualified"})),
   negotiationLeads |-> Len(WithStatus(leads, {"Negotiation"})),
   closedLeads      |-> Len(WithStatus(leads, {"Closed"})),
   lostLeads        |-> Len(WithStatus(leads, {"Lost Lead"})),
   junkLeads        |-> Len(WithStatus(leads, {"Junk Lead"})),
   prospectingLeads |-> Len(WithStatus(leads, {"Prospecting"})),
   paidLeads        |-> Len(WithStatus(leads, {"Paid"})),
   postponeLeads    |-> Len(WithStatus(leads, {"Postpone"})),
   conversionRate   |-> 0,
   revenueGenerated |-> SumRevenue(WithStatus(leads, {"Paid"})),
   potentialRevenue |-> SumRevenue(WithStatus(leads, {"Qualified"}))]

ComputeStatsA(leads) ==
  LET totalLeads  == Len(leads)
      junkLeads   == Len(WithStatus(leads, {"Junk Lead"}))
      paidLeads   == Len(WithStatus(leads, {"Paid"}))
      convertible == totalLeads - junkLeads
  IN  [totalLeads       |-> totalLeads,
       totalValue       |-> SumRevenue(leads),
       activeLeads      |-> Len(SelectSeq(leads, LAMBDA l : /\ l.status # "Paid"
                                                           /\ l.status # "Lost Lead"
                                                           /\ l.status # "Junk Lead")),
       newLeads         |-> Len(WithStatus(leads, {"New Lead"})),
       qualifiedLeads   |-> Len(WithStatus(leads, {"Qualified"})),
       negotiationLeads |-> Len(WithStatus(leads, {"Negotiation"})),
       closedLeads      |-> Len(WithStatus(leads, {"Closed"})),
       lostLeads        |-> Len(WithStatus(leads, {"Lost Lead"})),
       junkLeads        |-> junkLeads,
       prospectingLeads |-> Len(WithStatus(leads, {"Prospecting"})),
       paidLeads        |-> paidLeads,
       postponeLeads    |-> Len(WithStatus(leads, {"Postpone"})),
       conversionRate   |-> IF convertible > 0 THEN ToFixed1(paidLeads, convertible) ELSE 0,
       revenueGenerated |-> SumRevenue(WithStatus(leads, {"Paid"})),
       potentialRevenue |-> SumRevenue(WithStatus(leads, {"Prospecting", "Qualified"}))]

\* variant B; its conversion rate is not rounded and is kept as a fraction, its
\* commissions (10%) are kept in tenths; the per-week and per-month counters,
\* which read created_at, are not modelled
ZeroStatsB ==
  [totalLeads |-> 0, totalValue |-> 0, activeLeads |-> 0, newLeads |-> 0,
   qualifiedLeads |-> 0, negotiationLeads |-> 0, closedLeads |-> 0, lostLeads |-> 0,
   junkLeads |-> 0, prospectingLeads |-> 0, paidLeads |-> 0, postponeLeads |-> 0,
   revenueGenerated |-> 0, potentialRevenue |-> 0, commission |-> 0,
   potentialCommission |-> 0, conversionRate |-> <<0, 1>>]

ComputeStatsB(leads) ==
  LET paidLeads        == Len(WithStatus(leads, {"paid"}))
      revenueGenerated == SumRevenue(WithStatus(leads, {"paid"}))
      potentialRevenue == SumRevenue(WithStatus(leads,
                                                {"qualified", "proposal_sent", "negotiation"}))
  IN  [totalLeads       |-> Len(leads),
       totalValue       |-> SumRevenue(leads),
       activeLeads      |-> Len(WithStatus(leads,
                              {"new", "contacted", "qualified", "proposal_sent", "negotiation"})),
       newLeads         |-> Len(WithStatus(leads, {"new"})),
       qualifiedLeads   |-> Len(WithStatus(leads, {"qualified"})),
       negotiationLeads |-> Len(WithStatus(leads, {"negotiation"})),
       closedLeads      |-> Len(WithStatus(leads, {"closed"})),
       lostLeads        |-> Len(WithStatus(leads, {"lost"})),
       junkLeads        |-> Len(WithStatus(leads, {"junk"})),
       prospectingLeads |-> Len(WithStatus(leads, {"prospecting"})),
       paidLeads        |-> paidLeads,
       postponeLeads    |-> Len(WithStatus(leads, {"postpone"})),
       revenueGenerated |-> revenueGenerated,
       potentialRevenue |-> potentialRevenue,
       commission          |-> revenueGenerated,
       potentialCommission |-> potentialRevenue,
       conversionRate   |-> IF Len(leads) > 0 THEN <<paidLeads * 100, Len(leads)>> ELSE <<0, 1>>]

\* map[key] = (map[key] || 0) + 1 over the keys in order; the entries come out in
\* the order the keys were first seen
RECURSIVE Tally(_, _)
Tally(keys, acc) ==
  IF keys = <<>> THEN acc
  ELSE LET k == Head(keys)
           at == {j \in 1..Len(acc) : acc[j].key = k}
       IN  Tally(Tail(keys),
                 IF at = {} THEN Append(acc, [key |-> k, count |-> 1])
                 ELSE [j \in 1..Len(acc) |->
                         IF j \in at THEN [acc[j] EXCEPT !.count = @ + 1] ELSE acc[j]])

\* a falsy string of JavaScript: null or ''
Falsy(str) == str = NULL \/ str = ""

\* variant A: sourceMap and sourceData
SourceDataA(leads) ==
  Tally([k \in 1..Len(leads) |-> leads[k].source], <<>>)

\* variant A: const spec = lead.specialization || 'Unknown'
SpecializationDataA(leads) ==
  Tally([k \in 1..Len(leads) |->
           IF Falsy(leads[k].specialization) THEN "Unknown" ELSE leads[k].specialization],
        <<>>)

\* entries.sort((a, b) => b.count - a.count): stable, larger counts first
RECURSIVE SortByCountDesc(_)
SortByCountDesc(entries) ==
  IF entries = <<>> THEN <<>>
  ELSE LET top == CHOOSE j \in 1..Len(entries) :
                    /\ \A i \in 1..Len(entries) : entries[i].count <= entries[j].count
                    /\ \A i \in 1..(j - 1) : entries[i].count < entries[j].count
       IN  <<entries[top]>> \o
           SortByCountDesc([i \in 1..(Len(entries) - 1) |->
                              IF i < top THEN entries[i] ELSE entries[i + 1]])

\* variant B: if (lead.specialization) specializationMap.set(...), then the
\* entries with their share of all leads, sorted
SpecializationDataB(leads) ==
  LET kept    == SelectSeq(leads, LAMBDA l : ~Falsy(l.specialization))
      entries == Tally([k \in 1..Len(kept) |-> kept[k].specialization], <<>>)
      sorted  == SortByCountDesc(entries)
  IN  [j \in 1..Len(sorted) |->
         [key |-> sorted[j].key, count |-> sorted[j].count,
          percent |-> <<sorted[j].count * 100, Len(leads)>>]]

DashInit(v) ==
  [stats |-> IF v = "A" THEN ZeroStatsA ELSE ZeroStatsB,
   leadsBySource |-> <<>>, leadsBySpecialization |-> <<>>,
   loading |-> (v = "A"), failed |-> FALSE]

\* fetchDashboardData: select * from leads where user_id = user.id
DashFetchRequest(uid) ==
  Request("dash.fetchDashboardData", "select", "leads", [user_id |-> uid],
          NoPayload, NoCtx)

\* what a successful fetch sets from the fetched leads
DashAfterFetch(v, d, leads) ==
  IF v = "A"
  THEN [d EXCEPT !.stats = ComputeStatsA(leads),
                 !.leadsBySource = SourceDataA(leads),
                 !.leadsBySpecialization = SpecializationDataA(leads),
                 !.loading = FALSE]
  ELSE [d EXCEPT !.stats = ComputeStatsB(leads),
                 !.leadsBySpecialization = SpecializationDataB(leads),
                 !.loading = FALSE]

\* the continuation of fetchDashboardData after the awaited select; a failure is
\* only logged (dash.failed remembers that the console holds such a line)
DashFetchSettled(m) ==
  IF m.ok
  THEN /\ dash' = IF m.live THEN DashAfterFetch(variant, dash, m.data) ELSE dash
       /\ fx' = IF variant = "A"
                THEN {"console.log: Fetched leads for dashboard", "console.log: Calculated stats"}
                ELSE {}
  ELSE /\ dash' = IF m.live THEN [dash EXCEPT !.loading = FALSE, !.failed = TRUE] ELSE dash
       /\ fx' = {"console.error: Error fetching dashboard data"}

DashFetchDone(m) ==
  /\ m \in InFlight
  /\ m.stage = "resp"
  /\ m.origin = "dash.fetchDashboardData"
  /\ DashFetchSettled(m)
  /\ net' = Gone(net, m)
  /\ UNCHANGED <<user, page, variant, leadsTbl, rowsTbl, nextId, notifs,
                 deals, details, forms, busy, lists, contact>>

\* fault for C4: a handler that skips the fetch while another one is in flight
OnLeadsChangeCoalesced ==
  /\ page = "dashboard"
  /\ notifs # <<>>
  /\ CanIssue
  /\ notifs' = Tail(notifs)
  /\ net' = IF net = EmptyBag THEN Sent(net, DashFetchRequest(user)) ELSE net
  /\ dash' = [dash EXCEPT !.loading = TRUE]
  /\ fx' = {}
  /\ UNCHANGED <<user, page, variant, leadsTbl, rowsTbl, nextId, deals, details, forms, busy, lists, contact>>

\* a realtime INSERT / UPDATE / DELETE notification reaches the subscribed
\* dashboard: its handler calls fetchDashboardData(), which sets loading and
\* sends the select
OnLeadsChange ==
  /\ page = "dashboard"
  /\ notifs # <<>>
  /\ CanIssue
  /\ notifs' = Tail(notifs)
  /\ net' = Sent(net, DashFetchRequest(user))
  /\ dash' = [dash EXCEPT !.loading = TRUE]
  /\ fx' = IF variant = "A"
           THEN {"console.log: Lead " \o Head(notifs) \o " via Subscription!"}
           ELSE {}
  /\ UNCHANGED <<user, page, variant, leadsTbl, rowsTbl, nextId, deals, details, forms, busy, lists, contact>>

(***************************************************************************)
(* The database side of contacts, activities and lead_forms.  rowsTbl maps  *)
(* an id to [table, user_id, lead_id, completed]; lead_id 0 is NULL and a   *)
(* column the table does not have holds its default.                        *)
(***************************************************************************)
NoLead == 0

OtherRow(table, uid, leadId, completed) ==
  [table |-> table, user_id |-> uid, lead_id |-> leadId, completed |-> completed]

ReturnedOther(tbl, i) ==
  [id |-> i, table |-> tbl[i].table, user_id |-> tbl[i].user_id,
   lead_id |-> tbl[i].lead_id, completed |-> tbl[i].completed]

SelectOtherRows(tbl, table, jwt, filter, descending) ==
  LET hit == {i \in DOMAIN tbl : /\ tbl[i].table = table
                                 /\ tbl[i].user_id = jwt
                                 /\ Matches(ReturnedOther(tbl, i), filter)}
      ids == Ascending(hit)
      ord == IF descending THEN Reverse(ids) ELSE ids
  IN  [k \in 1..Len(ord) |-> ReturnedOther(tbl, ord[k])]

\* WITH CHECK (auth.uid() = user_id)
InsertPolicy(jwt, row) == jwt # NoUser /\ row.user_id = jwt

\* fault for C13: an activities table whose lead_id may be null
ForeignKeysNullable(tbl, table, row) ==
  row.lead_id # NoLead => row.lead_id \in DOMAIN tbl

\* lead_id REFERENCES leads(id); activities.lead_id is NOT NULL
ForeignKeys(tbl, table, row) ==
  /\ row.lead_id # NoLead => row.lead_id \in DOMAIN tbl
  /\ table = "activities" => row.lead_id # NoLead

Inserted(tbl, id, row) ==
  [i \in DOMAIN tbl \cup {id} |-> IF i = id THEN row ELSE tbl[i]]

\* fault for C12: a lead delete that leaves the activities of the lead behind
CascadeContactsOnly(rows, gone) ==
  [i \in DOMAIN rows |->
     IF rows[i].table = "contacts" /\ rows[i].lead_id \in gone
     THEN [rows[i] EXCEPT !.lead_id = NoLead] ELSE rows[i]]

\* activities.lead_id is ON DELETE CASCADE, contacts.lead_id is ON DELETE SET NULL
Cascade(rows, gone) ==
  [i \in {j \in DOMAIN rows : ~(rows[j].table = "activities" /\ rows[j].lead_id \in gone)} |->
     IF rows[i].lead_id \in gone THEN [rows[i] EXCEPT !.lead_id = NoLead] ELSE rows[i]]

\* USING (auth.uid() = user_id) on contacts, activities and lead_forms
SelectedOther(tbl, table, jwt, filter) ==
  {i \in DOMAIN tbl : /\ tbl[i].table = table
                      /\ tbl[i].user_id = jwt
                      /\ Matches(ReturnedOther(tbl, i), filter)}

UpdateOtherRows(tbl, table, jwt, filter, payload) ==
  [i \in DOMAIN tbl |->
     IF i \in SelectedOther(tbl, table, jwt, filter) THEN Patch(tbl[i], payload) ELSE tbl[i]]

DeleteOtherRows(tbl, table, jwt, filter) ==
  [i \in DOMAIN tbl \ SelectedOther(tbl, table, jwt, filter) |-> tbl[i]]

\* the realtime events of a change of the leads table that reach this session:
\* its dashboard is subscribed while mounted and is sent the changes of the rows
\* its user may see
Events(event, owners) ==
  IF page = "dashboard"
  THEN [k \in 1..Cardinality({i \in DOMAIN owners : owners[i] = user}) |-> event]
  ELSE <<>>

OwnersOf(tbl, ids) == [i \in ids |-> tbl[i].user_id]

(***************************************************************************)
(* The database serves a request.                                           *)
(***************************************************************************)
ServeSelect(m) ==
  /\ m \in InFlight
  /\ m.stage = "req"
  /\ m.op = "select"
  /\ LET rows == IF m.table = "leads"
                 THEN SelectRows(leadsTbl, m.jwt, m.filter, IsDescending(m.order))
                 ELSE SelectOtherRows(rowsTbl, m.table, m.jwt, m.filter,
                                      IsDescending(m.order))
         ok   == m.single => Len(rows) = 1
     IN  net' = Sent(Gone(net, m), Response(m, ok, IF ok THEN rows ELSE <<>>))
  /\ fx' = {}
  /\ UNCHANGED <<user, page, variant, leadsTbl, rowsTbl, nextId, notifs,
                 deals, dash, details, forms, busy, lists, contact>>

ServeUpdate(m) ==
  /\ m \in InFlight
  /\ m.stage = "req"
  /\ m.op = "update"
  /\ IF m.table = "leads"
     THEN /\ LET hit    == Selected(leadsTbl, m.jwt, m.filter)
                 events == Events("Updated", OwnersOf(leadsTbl, hit))
             IN  /\ Len(notifs) + Len(events) <= MaxNotifs
                 /\ notifs' = notifs \o events
          /\ leadsTbl' = UpdateRows(leadsTbl, m.jwt, m.filter, m.payload)
          /\ rowsTbl' = rowsTbl
     ELSE /\ \A i \in SelectedOther(rowsTbl, m.table, m.jwt, m.filter) :
               ForeignKeys(leadsTbl, m.table, Patch(rowsTbl[i], m.payload))
          /\ rowsTbl' = UpdateOtherRows(rowsTbl, m.table, m.jwt, m.filter, m.payload)
          /\ UNCHANGED <<leadsTbl, notifs>>
  /\ net' = Sent(Gone(net, m), Response(m, TRUE, <<>>))
  /\ fx' = {}
  /\ UNCHANGED <<user, page, variant, nextId, deals, dash, details, forms, busy, lists, contact>>

\* DELETE: the rows of the session that match are removed; the foreign keys of
\* the rows that referenced a removed lead act whoever owns those rows
ServeDelete(m) ==
  /\ m \in InFlight
  /\ m.stage = "req"
  /\ m.op = "delete"
  /\ IF m.table = "leads"
     THEN /\ LET hit    == Selected(leadsTbl, m.jwt, m.filter)
                 events == Events("Deleted", OwnersOf(leadsTbl, hit))
             IN  /\ Len(notifs) + Len(events) <= MaxNotifs
                 /\ notifs' = notifs \o events
                 /\ rowsTbl' = Cascade(rowsTbl, hit)
          /\ leadsTbl' = DeleteRows(leadsTbl, m.jwt, m.filter)
     ELSE /\ rowsTbl' = DeleteOtherRows(rowsTbl, m.table, m.jwt, m.filter)
          /\ UNCHANGED <<leadsTbl, notifs>>
  /\ net' = Sent(Gone(net, m), Response(m, TRUE, <<>>))
  /\ fx' = {}
  /\ UNCHANGED <<user, page, variant, nextId, deals, dash, details, forms, busy, lists, contact>>

\* an insert or update the policy or a constraint refuses is answered with an error
ServeRefused(m) ==
  /\ m \in InFlight
  /\ m.stage = "req"
  /\ \/ /\ m.op = "insert"
        /\ \/ ~InsertPolicy(m.jwt, m.payload)
           \/ /\ m.table # "leads"
              /\ ~ForeignKeys(leadsTbl, m.table,
                              OtherRow(m.table, m.payload.user_id, m.payload.lead_id,
                                       m.payload.completed))
     \/ /\ m.op = "update"
        /\ m.table # "leads"
        /\ \E i \in SelectedOther(rowsTbl, m.table, m.jwt, m.filter) :
             ~ForeignKeys(leadsTbl, m.table, Patch(rowsTbl[i], m.payload))
  /\ net' = Sent(Gone(net, m), Response(m, FALSE, <<>>))
  /\ fx' = {}
  /\ UNCHANGED <<user, page, variant, leadsTbl, rowsTbl, nextId, notifs,
                 deals, dash, details, forms, busy, lists, contact>>

ServeInsert(m) ==
  /\ m \in InFlight
  /\ m.stage = "req"
  /\ m.op = "insert"
  /\ nextId < MaxIds
  /\ InsertPolicy(m.jwt, m.payload)
  /\ nextId' = nextId + 1
  /\ IF m.table = "leads"
     THEN LET events == Events("Inserted", (nextId + 1) :> m.payload.user_id)
          IN  /\ Len(notifs) + Len(events) <= MaxNotifs
              /\ notifs' = notifs \o events
              /\ leadsTbl' = Inserted(leadsTbl, nextId + 1, m.payload)
              /\ rowsTbl' = rowsTbl
              /\ net' = Sent(Gone(net, m), Response(m, TRUE, <<>>))
     ELSE LET row == OtherRow(m.table, m.payload.user_id, m.payload.lead_id,
                              m.payload.completed)
          IN  /\ ForeignKeys(leadsTbl, m.table, row)
              /\ rowsTbl' = Inserted(rowsTbl, nextId + 1, row)
              /\ net' = Sent(Gone(net, m), Response(m, TRUE, <<ReturnedOther(rowsTbl', nextId + 1)>>))
              /\ UNCHANGED <<leadsTbl, notifs>>
  /\ fx' = {}
  /\ UNCHANGED <<user, page, variant, deals, dash, details, forms, busy, lists, contact>>

\* any request can fail: the network, the server, a policy or a constraint
ServeError(m) ==
  /\ m \in InFlight
  /\ m.stage = "req"
  /\ net' = Sent(Gone(net, m), Response(m, FALSE, <<>>))
  /\ fx' = {}
  /\ UNCHANGED <<user, page, variant, leadsTbl, rowsTbl, nextId, notifs,
                 deals, dash, details, forms, busy, lists, contact>>

\* an insert sent with the token of the session from outside the pages: the
\* tables are open to every authenticated session, under their policies
DirectInsert(table, leadId) ==
  /\ user # NoUser
  /\ table \in {"contacts", "activities"}
  /\ leadId \in 0..MaxIds
  /\ CanIssue
  /\ net' = Sent(net, Request("direct.insert", "insert", table, NoPayload,
                              [user_id |-> user, lead_id |-> leadId, completed |-> FALSE],
                              NoCtx))
  /\ fx' = {}
  /\ UNCHANGED <<user, page, variant, leadsTbl, rowsTbl, nextId, notifs,
                 deals, dash, details, forms, busy, lists, contact>>

DirectInsertDone(m) ==
  /\ m \in InFlight
  /\ m.stage = "resp"
  /\ m.origin = "direct.insert"
  /\ net' = Gone(net, m)
  /\ fx' = {}
  /\ UNCHANGED <<user, page, variant, leadsTbl, rowsTbl, nextId, notifs,
                 deals, dash, details, forms, busy, lists, contact>>

\* the same user's kanban board in another browser session: its drop of lead
\* leadId on column status, as the database serves it
OtherSessionDrop(leadId, status) ==
  /\ leadId \in DOMAIN leadsTbl
  /\ status \in Range(DealsStatuses)
  /\ leadsTbl[leadId].user_id = user
  /\ LET uid    == leadsTbl[leadId].user_id
         events == Events("Updated", leadId :> uid)
     IN  /\ Len(notifs) + Len(events) <= MaxNotifs
         /\ notifs' = notifs \o events
         /\ leadsTbl' = UpdateRows(leadsTbl, uid, [id |-> leadId, user_id |-> uid],
                                   [status |-> status])
  /\ fx' = {}
  /\ UNCHANGED <<user, page, variant, rowsTbl, nextId, net, deals, dash, details,
                 forms, busy, lists, contact>>

\* the same user creates a lead through the new-lead form of another session
OtherSessionInsert(row) ==
  /\ user # NoUser
  /\ row.user_id = user
  /\ nextId < MaxIds
  /\ LET events == Events("Inserted", (nextId + 1) :> user)
     IN  /\ Len(notifs) + Len(events) <= MaxNotifs
         /\ notifs' = notifs \o events
  /\ nextId' = nextId + 1
  /\ leadsTbl' = Inserted(leadsTbl, nextId + 1, row)
  /\ fx' = {}
  /\ UNCHANGED <<user, page, variant, rowsTbl, net, deals, dash, details, forms, busy, lists, contact>>

\* the same user deletes lead leadId in another session
OtherSessionDelete(leadId) ==
  /\ leadId \in DOMAIN leadsTbl
  /\ leadsTbl[leadId].user_id = user
  /\ LET events == Events("Deleted", leadId :> user)
     IN  /\ Len(notifs) + Len(events) <= MaxNotifs
         /\ notifs' = notifs \o events
  /\ leadsTbl' = DeleteRows(leadsTbl, user, [id |-> leadId, user_id |-> user])
  /\ rowsTbl' = Cascade(rowsTbl, {leadId})
  /\ fx' = {}
  /\ UNCHANGED <<user, page, variant, nextId, net, deals, dash, details, forms, busy, lists, contact>>

(***************************************************************************)
(* Mounting a page: the components of the other routes are gone, the        *)
(* requests they sent stay in flight, and the mount effect of the page runs.*)
(***************************************************************************)
Pages == {"dashboard", "leads", "newLead", "leadDetails", "deals", "contacts",
          "newContact", "contactDetails", "forms"}

\* routes with a parameter: /leads/:id, /contacts/:id and /contacts/new?leadId=
RouteParams(p) ==
  IF p \in {"leadDetails", "newContact", "contactDetails"} THEN 0..MaxIds ELSE {0}

\* Leads.fetchLeads: the status filter of the select box is part of the query
LeadsFilter(uid, filterStatus) ==
  IF filterStatus = "" THEN [user_id |-> uid]
  ELSE [user_id |-> uid, status |-> filterStatus]

LeadsFetchRequest(uid, filterStatus, sortField, sortDirection) ==
  OrderedBy(Request("leads.fetchLeads", "select", "leads", LeadsFilter(uid, filterStatus),
                    NoPayload, NoCtx),
            sortField, sortDirection)

\* Contacts.fetchContacts: select * from contacts where user_id = user.id order by name
ContactsFetchRequest(uid) ==
  OrderedBy(Request("contacts.fetchContacts", "select", "contacts", [user_id |-> uid],
                    NoPayload, NoCtx),
            "name", "asc")

\* ContactDetails.fetchContactDetails and ContactDetails.fetchLeads
ContactFetchRequest(uid, id) ==
  Single(Request("contact.fetchContactDetails", "select", "contacts",
                 [id |-> id, user_id |-> uid], NoPayload, NoCtx))

ContactLeadsRequest(uid) ==
  OrderedBy(Request("contact.fetchLeads", "select", "leads", [user_id |-> uid],
                    NoPayload, NoCtx),
            "title", "asc")

DetailsLeadRequest(uid, id) ==
  Single(Request("details.fetchLead", "select", "leads", [id |-> id, user_id |-> uid],
                 NoPayload, NoCtx))

DetailsActivitiesRequest(origin, uid, id) ==
  Descending(Request(origin, "select", "activities", [lead_id |-> id, user_id |-> uid],
                     NoPayload, NoCtx))

FormsFetchRequest(uid) ==
  Descending(Request("forms.fetchForms", "select", "lead_forms", [user_id |-> uid],
                     NoPayload, NoCtx))

NewContactLeadsRequest(uid) ==
  Request("newContact.fetchLeads", "select", "leads", [user_id |-> uid], NoPayload, NoCtx)

\* the requests the mount effect of page p sends for user uid
MountFetch(p, q, uid) ==
  LET reqs == CASE p = "dashboard"   -> {DashFetchRequest(uid)}
                [] p = "deals"       -> {DealsFetchRequest(uid)}
                [] p = "leadDetails" -> IF q = 0 THEN {} ELSE {DetailsLeadRequest(uid, q)}
                [] p = "forms"       -> {FormsFetchRequest(uid)}
                [] p = "newContact"  -> {NewContactLeadsRequest(uid)}
                [] p = "leads"       ->
                     {LeadsFetchRequest(uid, ListsInit.filterStatus, ListsInit.sortField,
                                        ListsInit.sortDirection)}
                [] p = "contacts"    -> {ContactsFetchRequest(uid)}
                [] p = "contactDetails" ->
                     IF q = 0 THEN {ContactLeadsRequest(uid)}
                     ELSE {ContactFetchRequest(uid, q), ContactLeadsRequest(uid)}
                [] OTHER             -> {}
  IN  {[r EXCEPT !.jwt = uid] : r \in reqs}

Mount(p, q, uid, rest) ==
  LET fetch == MountFetch(p, q, uid)
  IN  /\ page' = p
      /\ fetch # {} => BagCardinality(rest) + Cardinality(fetch) <= MaxInFlight
      /\ net' = Orphaned(rest) (+) SetToBag(fetch)
      /\ notifs' = <<>>
      /\ deals' = DealsInit
      /\ dash' = IF p = "dashboard"
                 THEN [DashInit(variant) EXCEPT !.loading = TRUE]
                 ELSE DashInit(variant)
      /\ details' = IF p = "leadDetails"
                    THEN [DetailsInit EXCEPT !.leadId = q, !.loading = (q # 0)]
                    ELSE DetailsInit
      /\ forms' = FormsInit
      /\ busy' = IF p = "newContact"
                 THEN [BusyInit EXCEPT !.leadIdFromQuery = q]
                 ELSE BusyInit
      /\ lists' = ListsInit
      /\ contact' = IF p = "contactDetails"
                    THEN [ContactInit EXCEPT !.contactId = q]
                    ELSE ContactInit

Unmount(rest) ==
  /\ net' = Orphaned(rest)
  /\ notifs' = <<>>
  /\ deals' = DealsInit
  /\ dash' = DashInit(variant)
  /\ details' = DetailsInit
  /\ forms' = FormsInit
  /\ busy' = BusyInit
  /\ lists' = ListsInit
  /\ contact' = ContactInit

\* Login.handleLogin: signIn succeeds and navigate('/') mounts the dashboard
SignIn(uid) ==
  /\ user = NoUser
  /\ page = "login"
  /\ uid \in Users
  /\ user' = uid
  /\ Mount("dashboard", 0, uid, net)
  /\ fx' = Toast("Logged in successfully")
  /\ UNCHANGED <<variant, leadsTbl, rowsTbl, nextId>>

\* handleSignOut: signOut, then navigate('/login')
SignOut ==
  /\ user # NoUser
  /\ user' = NoUser
  /\ page' = "login"
  /\ Unmount(net)
  /\ fx' = {}
  /\ UNCHANGED <<variant, leadsTbl, rowsTbl, nextId>>

\* a link of the sidebar or of a page, or a URL typed by the signed-in user
Navigate(p, q) ==
  /\ user # NoUser
  /\ p \in Pages
  /\ p # page
  /\ q \in RouteParams(p)
  /\ Mount(p, q, user, net)
  /\ fx' = {}
  /\ UNCHANGED <<user, variant, leadsTbl, rowsTbl, nextId>>

\* navigate(path) called by a continuation, the other requests in flight being
\* rest: the router follows it whether or not the component that asked is still
\* mounted; a signed-out session stays at /login, a route that is already
\* rendered stays mounted
Redirect(p, q, rest) ==
  IF user = NoUser
  THEN /\ page' = "login"
       /\ Unmount(rest)
  ELSE IF p = page /\ (p = "leadDetails" => q = details.leadId)
       THEN /\ net' = rest
            /\ UNCHANGED <<page, notifs, deals, dash, details, forms, busy, lists, contact>>
       ELSE Mount(p, q, user, rest)

(***************************************************************************)
(* The router (App): the <Route> table.  A path renders a page or redirects *)
(* to another path; page "register" has no state in the model.              *)
(***************************************************************************)
ProtectedPaths ==
  {"/", "/leads", "/leads/new", "/leads/:id", "/deals", "/contacts", "/contacts/new",
   "/contacts/:id", "/forms"}

\* the paths a browser may ask for; the last two match no <Route>
Paths == ProtectedPaths \cup {"/login", "/register", "/settings", "/leads/new/import"}

\* the page of a protected <Route>
PageOf(path) ==
  CASE path = "/"             -> "dashboard"
    [] path = "/leads"        -> "leads"
    [] path = "/leads/new"    -> "newLead"
    [] path = "/leads/:id"    -> "leadDetails"
    [] path = "/deals"        -> "deals"
    [] path = "/contacts"     -> "contacts"
    [] path = "/contacts/new" -> "newContact"
    [] path = "/contacts/:id" -> "contactDetails"
    [] path = "/forms"        -> "forms"

\* fault for C27: a ProtectedRoute that renders its children whoever asks
RouteElementUnguarded(path, uid) ==
  CASE path = "/login"    -> IF uid = NoUser THEN [render |-> "login"] ELSE [redirect |-> "/"]
    [] path = "/register" -> IF uid = NoUser THEN [render |-> "register"] ELSE [redirect |-> "/"]
    [] path \in ProtectedPaths -> [render |-> PageOf(path)]
    [] OTHER -> [redirect |-> "/"]

\* the element of the <Route> that matches path, for the user of useAuth()
RouteElement(path, uid) ==
  CASE path = "/login"    -> IF uid = NoUser THEN [render |-> "login"] ELSE [redirect |-> "/"]
    [] path = "/register" -> IF uid = NoUser THEN [render |-> "register"] ELSE [redirect |-> "/"]
    [] path \in ProtectedPaths ->
         IF uid = NoUser THEN [redirect |-> "/login"] ELSE [render |-> PageOf(path)]
    [] OTHER -> [redirect |-> "/"]

\* the page rendered for path once every <Navigate replace> has been followed
RECURSIVE Rendered(_, _)
Rendered(path, uid) ==
  LET element == RouteElement(path, uid)
  IN  IF "render" \in DOMAIN element THEN element.render
      ELSE Rendered(element.redirect, uid)

\* the browser opens path (a typed URL, a bookmark, a reload), q being the :id
\* or ?leadId= of the URL
OpenPath(path, q) ==
  /\ path \in Paths
  /\ LET target == Rendered(path, user)
     IN  IF target \in {"login", "register"}
         THEN /\ page' = target
              /\ Unmount(net)
         ELSE /\ q \in RouteParams(target)
              /\ Mount(target, q, user, net)
  /\ fx' = {}
  /\ UNCHANGED <<user, variant, leadsTbl, rowsTbl, nextId>>

(***************************************************************************)
(* The list page Leads.  Searching, the column filters and sorting act on   *)
(* the fetched list; the status select is part of the query.               *)
(***************************************************************************)
LeadsStatuses ==
  <<"New Lead", "Junk Lead", "Prospecting", "Qualified", "Paid", "Lost Lead", "Postpone">>

\* what is typed into the search box and into the filter of a column
SearchInputs == {"", "website", "web"}

FilterFields == {"source", "specialization", "revenue_operator", "revenue"}

\* the <option>s of the revenue operator, the amounts typed into the revenue
\* filter, and the texts typed into the filter of a text column
FilterInputs(field) ==
  CASE field = "revenue_operator" -> {"", "gt", "lt"}
    [] field = "revenue"          -> {"", "3", "5"}
    [] OTHER                      -> SearchInputs

\* fieldValue.toString() of a number of one digit
NumberText(n) == <<"0", "1", "2", "3", "4", "5", "6", "7", "8", "9">>[n + 1]

\* lead[field] as the filter reads it: a text, or null
FieldText(lead, field) ==
  IF field = "revenue"
  THEN (IF lead.revenue = NoNumber THEN NULL ELSE NumberText(lead.revenue[1]))
  ELSE lead[field]

\* String.toLowerCase over the texts of the model
ToLowerCase(str) ==
  CASE str = "Website"      -> "website"
    [] str = "Referral"     -> "referral"
    [] str = "Data Science" -> "data science"
    [] OTHER                -> str

\* text.includes(term) over the lower-case texts of the model
Includes(text, term) ==
  \/ term = ""
  \/ text = term
  \/ text = "website" /\ term = "web"

\* (lead.field || '')
OrEmpty(value) == IF value = NULL THEN "" ELSE value

MatchesSearch(lead, searchTerm) ==
  \/ Includes(ToLowerCase(OrEmpty(lead.specialization)), ToLowerCase(searchTerm))
  \/ Includes(ToLowerCase(OrEmpty(lead.source)), ToLowerCase(searchTerm))

MatchesFilters(lead, filters) ==
  \A field \in DOMAIN filters :
    \/ filters[field] = ""
    \/ /\ field \in DOMAIN lead
       /\ FieldText(lead, field) # NULL
       /\ Includes(ToLowerCase(FieldText(lead, field)), ToLowerCase(filters[field]))

FilteredLeads(leads, searchTerm, filterStatus, filters) ==
  SelectSeq(leads, LAMBDA lead : /\ MatchesSearch(lead, searchTerm)
                                 /\ (filterStatus # "" => lead.status = filterStatus)
                                 /\ MatchesFilters(lead, filters))

\* filteredLeads.sort(...): by the sort header, over the ids of the list
SortLeads(leads, sortDirection) ==
  LET ids == Ascending({leads[k].id : k \in 1..Len(leads)})
      ord == IF sortDirection = "asc" THEN ids ELSE Reverse(ids)
  IN  [k \in 1..Len(ord) |-> CHOOSE lead \in Range(leads) : lead.id = ord[k]]

\* the rows of the table of the page
DisplayedLeads ==
  SortLeads(FilteredLeads(lists.leads, lists.searchTerm, lists.filterStatus, lists.filters),
            lists.sortDirection)

\* the table (header and rows) is rendered once loaded and not empty
LeadsTableShown == page = "leads" /\ ~lists.loading /\ DisplayedLeads # <<>>

\* fault for C19: a search box that queries the database on every change
SetSearchTermRefetches(term) ==
  /\ page = "leads"
  /\ term \in SearchInputs
  /\ term # lists.searchTerm
  /\ user # NoUser
  /\ CanIssue
  /\ lists' = [lists EXCEPT !.searchTerm = term, !.loading = TRUE]
  /\ net' = Sent(net, LeadsFetchRequest(user, lists.filterStatus, lists.sortField,
                                        lists.sortDirection))
  /\ fx' = {}
  /\ UNCHANGED <<user, page, variant, leadsTbl, rowsTbl, nextId, notifs,
                 deals, dash, details, forms, busy, contact>>

SetSearchTerm(term) ==
  /\ page = "leads"
  /\ term \in SearchInputs
  /\ term # lists.searchTerm
  /\ lists' = [lists EXCEPT !.searchTerm = term]
  /\ fx' = {}
  /\ UNCHANGED <<user, page, variant, leadsTbl, rowsTbl, nextId, net, notifs,
                 deals, dash, details, forms, busy, contact>>

\* setFilterStatus(value): the effect on [user, filterStatus] runs fetchLeads
SetFilterStatus(status) ==
  /\ page = "leads"
  /\ status \in {""} \cup Range(LeadsStatuses)
  /\ status # lists.filterStatus
  /\ IF user = NoUser
     THEN /\ lists' = [lists EXCEPT !.filterStatus = status]
          /\ net' = net
     ELSE /\ CanIssue
          /\ lists' = [lists EXCEPT !.filterStatus = status, !.loading = TRUE]
          /\ net' = Sent(net, LeadsFetchRequest(user, status, lists.sortField,
                                                lists.sortDirection))
  /\ fx' = {}
  /\ UNCHANGED <<user, page, variant, leadsTbl, rowsTbl, nextId, notifs,
                 deals, dash, details, forms, busy, contact>>

HandleSort(field) ==
  /\ LeadsTableShown
  /\ field \in {"created_at", "full_name"}
  /\ lists' = [lists EXCEPT
                 !.sortDirection = IF lists.sortField = field
                                   THEN (IF lists.sortDirection = "asc" THEN "desc" ELSE "asc")
                                   ELSE "desc",
                 !.sortField = field]
  /\ fx' = {}
  /\ UNCHANGED <<user, page, variant, leadsTbl, rowsTbl, nextId, net, notifs,
                 deals, dash, details, forms, busy, contact>>

HandleFilterChange(field, value) ==
  /\ LeadsTableShown
  /\ field \in FilterFields
  /\ value \in FilterInputs(field)
  /\ lists' = [lists EXCEPT !.filters =
                 [c \in DOMAIN lists.filters \cup {field} |->
                    IF c = field THEN value ELSE lists.filters[c]]]
  /\ lists' # lists
  /\ fx' = {}
  /\ UNCHANGED <<user, page, variant, leadsTbl, rowsTbl, nextId, net, notifs,
                 deals, dash, details, forms, busy, contact>>

\* the continuation of Leads.fetchLeads
LeadsFetchDone(m) ==
  /\ m \in InFlight
  /\ m.stage = "resp"
  /\ m.origin = "leads.fetchLeads"
  /\ IF m.ok
     THEN /\ lists' = IF m.live THEN [lists EXCEPT !.leads = m.data, !.loading = FALSE]
                      ELSE lists
          /\ fx' = {}
     ELSE /\ lists' = IF m.live THEN [lists EXCEPT !.loading = FALSE] ELSE lists
          /\ fx' = LogAndToast("Error fetching forms", "Failed to load leads")
  /\ net' = Gone(net, m)
  /\ UNCHANGED <<user, page, variant, leadsTbl, rowsTbl, nextId, notifs,
                 deals, dash, details, forms, busy, contact>>

\* list.filter(row => row.id !== id)
Without(list, id) == SelectSeq(list, LAMBDA row : row.id # id)

\* Leads.deleteLead(id), from the menu of a row: the request is filtered by id
\* only and sent at once; the closure keeps the leads of the render
ListDeleteLead(id) ==
  /\ LeadsTableShown
  /\ id \in {DisplayedLeads[k].id : k \in 1..Len(DisplayedLeads)}
  /\ CanIssue
  /\ net' = Sent(net, Request("leads.deleteLead", "delete", "leads", [id |-> id],
                              NoPayload, [leadId |-> id, status |-> "", leads |-> lists.leads]))
  /\ fx' = {}
  /\ UNCHANGED <<user, page, variant, leadsTbl, rowsTbl, nextId, notifs,
                 deals, dash, details, forms, busy, lists, contact>>

ListDeleteLeadDone(m) ==
  /\ m \in InFlight
  /\ m.stage = "resp"
  /\ m.origin = "leads.deleteLead"
  /\ IF m.ok
     THEN /\ lists' = IF m.live
                      THEN [lists EXCEPT !.leads = Without(m.ctx.leads, m.ctx.leadId)]
                      ELSE lists
          /\ fx' = Toast("Lead deleted successfully")
     ELSE /\ lists' = lists
          /\ fx' = LogAndToast("Error deleting lead", "Failed to delete lead")
  /\ net' = Gone(net, m)
  /\ UNCHANGED <<user, page, variant, leadsTbl, rowsTbl, nextId, notifs,
                 deals, dash, details, forms, busy, contact>>

(***************************************************************************)
(* The list page Contacts.                                                  *)
(***************************************************************************)
ContactsFetchDone(m) ==
  /\ m \in InFlight
  /\ m.stage = "resp"
  /\ m.origin = "contacts.fetchContacts"
  /\ IF m.ok
     THEN /\ lists' = IF m.live THEN [lists EXCEPT !.contacts = m.data, !.loading = FALSE]
                      ELSE lists
          /\ fx' = {}
     ELSE /\ lists' = IF m.live THEN [lists EXCEPT !.loading = FALSE] ELSE lists
          /\ fx' = LogAndToast("Error fetching contacts", "Failed to load contacts")
  /\ net' = Gone(net, m)
  /\ UNCHANGED <<user, page, variant, leadsTbl, rowsTbl, nextId, notifs,
                 deals, dash, details, forms, busy, contact>>

\* Contacts.deleteContact(id), from the menu of a row
ListDeleteContact(id) ==
  /\ page = "contacts"
  /\ ~lists.loading
  /\ id \in {lists.contacts[k].id : k \in 1..Len(lists.contacts)}
  /\ CanIssue
  /\ net' = Sent(net, Request("contacts.deleteContact", "delete", "contacts", [id |-> id],
                              NoPayload,
                              [leadId |-> id, status |-> "", leads |-> lists.contacts]))
  /\ fx' = {}
  /\ UNCHANGED <<user, page, variant, leadsTbl, rowsTbl, nextId, notifs,
                 deals, dash, details, forms, busy, lists, contact>>

ListDeleteContactDone(m) ==
  /\ m \in InFlight
  /\ m.stage = "resp"
  /\ m.origin = "contacts.deleteContact"
  /\ IF m.ok
     THEN /\ lists' = IF m.live
                      THEN [lists EXCEPT !.contacts = Without(m.ctx.leads, m.ctx.leadId)]
                      ELSE lists
          /\ fx' = Toast("Contact deleted successfully")
     ELSE /\ lists' = lists
          /\ fx' = LogAndToast("Error deleting contact", "Failed to delete contact")
  /\ net' = Gone(net, m)
  /\ UNCHANGED <<user, page, variant, leadsTbl, rowsTbl, nextId, notifs,
                 deals, dash, details, forms, busy, contact>>

(***************************************************************************)
(* The lead forms: NewLead and the form of LeadDetails.  A form hands its   *)
(* handler strings; the values the model enters are drawn from small sets.  *)
(***************************************************************************)
SourceInputs == {"Website", "Referral"}

RevenueInputs == {"", "5"}

SpecializationInputs == {"", "Data Science"}

\* the values of a submitted lead form whose status <select> offers statuses
LeadFormValues(statuses) ==
  [source : SourceInputs, status : Range(statuses), revenue : RevenueInputs,
   specialization : SpecializationInputs]

\* parseFloat of the text of a number input holding one digit
ParseFloat(str) ==
  CHOOSE n \in 0..9 : <<"0", "1", "2", "3", "4", "5", "6", "7", "8", "9">>[n + 1] = str

\* data.revenue ? parseFloat(data.revenue) : null
RevenueOf(data) == IF data.revenue # "" THEN Num(ParseFloat(data.revenue)) ELSE NoNumber

\* data.specialization || null
SpecializationOf(data) == IF Falsy(data.specialization) THEN NULL ELSE data.specialization

\* NewLead.onSubmit: the row it inserts
NewLeadPayload(uid, data) ==
  LeadRow(uid, data.status, RevenueOf(data), data.source, SpecializationOf(data))

SubmitNewLead(data) ==
  /\ page = "newLead"
  /\ data \in LeadFormValues(NewLeadStatuses)
  /\ ~busy.newLead
  /\ user # NoUser
  /\ CanIssue
  /\ busy' = [busy EXCEPT !.newLead = TRUE]
  /\ net' = Sent(net, Request("newLead.onSubmit", "insert", "leads", NoPayload,
                              NewLeadPayload(user, data), NoCtx))
  /\ fx' = {}
  /\ UNCHANGED <<user, page, variant, leadsTbl, rowsTbl, nextId, notifs,
                 deals, dash, details, forms, lists, contact>>

\* fault for C17: a continuation that navigates to /leads whatever the outcome
NewLeadDoneAlwaysNavigates(m) ==
  /\ m \in InFlight
  /\ m.stage = "resp"
  /\ m.origin = "newLead.onSubmit"
  /\ Redirect("leads", 0, Gone(net, m))
  /\ fx' = IF m.ok THEN Toast("Lead created successfully")
           ELSE LogAndToast("Error creating lead", "Failed to create lead")
  /\ UNCHANGED <<user, variant, leadsTbl, rowsTbl, nextId>>

\* the continuation of NewLead.onSubmit: navigate('/leads') after a success
NewLeadDone(m) ==
  /\ m \in InFlight
  /\ m.stage = "resp"
  /\ m.origin = "newLead.onSubmit"
  /\ IF m.ok
     THEN /\ Redirect("leads", 0, Gone(net, m))
          /\ fx' = Toast("Lead created successfully")
     ELSE /\ net' = Gone(net, m)
          /\ busy' = IF m.live THEN [busy EXCEPT !.newLead = FALSE] ELSE busy
          /\ fx' = LogAndToast("Error creating lead", "Failed to create lead")
          /\ UNCHANGED <<page, notifs, deals, dash, details, forms, lists, contact>>
  /\ UNCHANGED <<user, variant, leadsTbl, rowsTbl, nextId>>

(***************************************************************************)
(* LeadDetails.                                                             *)
(***************************************************************************)
\* a setter a handler calls after it has navigated: the component is unmounted
\* by the navigation, so the call is all that is left of it
SetLoading(value) == {IF value THEN "setLoading(true)" ELSE "setLoading(false)"}

\* fault for C16: a catch branch that stays on the detail page
DetailsFetchFailedStays(m) ==
  /\ net' = Gone(net, m)
  /\ details' = IF m.live THEN [details EXCEPT !.loading = FALSE] ELSE details
  /\ fx' = LogAndToast("Error fetching lead details", "Failed to load lead details")
  /\ UNCHANGED <<page, notifs, deals, dash, forms, busy, lists, contact>>

\* the catch and finally branches of fetchLeadDetails: console.error, toast.error,
\* navigate('/leads'), setLoading(false)
DetailsFetchFailed(m) ==
  /\ Redirect("leads", 0, Gone(net, m))
  /\ fx' = LogAndToast("Error fetching lead details", "Failed to load lead details")
             \cup SetLoading(FALSE)

\* fetchLeadDetails after the select of the lead: setLead and the select of the
\* activities, or the catch branch
DetailsLeadFetched(m) ==
  /\ m \in InFlight
  /\ m.stage = "resp"
  /\ m.origin = "details.fetchLead"
  /\ IF m.ok
     THEN /\ details' = IF m.live THEN [details EXCEPT !.lead = m.data] ELSE details
          /\ net' = Sent(Gone(net, m),
                    Followup(m, DetailsActivitiesRequest("details.fetchActivities",
                                                          m.filter.user_id, m.filter.id)))
          /\ fx' = {}
          /\ UNCHANGED <<page, notifs, deals, dash, forms, busy, lists, contact>>
     ELSE DetailsFetchFailed(m)
  /\ UNCHANGED <<user, variant, leadsTbl, rowsTbl, nextId>>

DetailsActivitiesFetched(m) ==
  /\ m \in InFlight
  /\ m.stage = "resp"
  /\ m.origin = "details.fetchActivities"
  /\ IF m.ok
     THEN /\ details' = IF m.live
                        THEN [details EXCEPT !.activities = m.data, !.loading = FALSE]
                        ELSE details
          /\ net' = Gone(net, m)
          /\ fx' = {}
          /\ UNCHANGED <<page, notifs, deals, dash, forms, busy, lists, contact>>
     ELSE DetailsFetchFailed(m)
  /\ UNCHANGED <<user, variant, leadsTbl, rowsTbl, nextId>>

\* LeadDetails.onSubmit: the columns it writes
DetailsPayload(data) ==
  [source |-> data.source, status |-> data.status, revenue |-> RevenueOf(data),
   specialization |-> SpecializationOf(data)]

\* the form is rendered once the page has loaded a lead
DetailsShown == page = "leadDetails" /\ ~details.loading /\ details.lead # <<>>

\* fault for C8: a save that refuses to reopen a Paid lead
SubmitDetailsGuarded(data) ==
  /\ DetailsShown
  /\ details.lead[1].status # "Paid"
  /\ data \in LeadFormValues(LeadDetailsStatuses)
  /\ ~details.saving
  /\ details.leadId # 0
  /\ user # NoUser
  /\ CanIssue
  /\ details' = [details EXCEPT !.saving = TRUE]
  /\ net' = Sent(net, Request("details.onSubmit", "update", "leads",
                              [id |-> details.leadId, user_id |-> user],
                              DetailsPayload(data),
                              [leadId |-> details.leadId, status |-> data.status,
                               leads |-> details.lead]))
  /\ fx' = {}
  /\ UNCHANGED <<user, page, variant, leadsTbl, rowsTbl, nextId, notifs,
                 deals, dash, forms, busy, lists, contact>>

SubmitDetails(data) ==
  /\ DetailsShown
  /\ data \in LeadFormValues(LeadDetailsStatuses)
  /\ ~details.saving
  /\ details.leadId # 0
  /\ user # NoUser
  /\ CanIssue
  /\ details' = [details EXCEPT !.saving = TRUE]
  /\ net' = Sent(net, Request("details.onSubmit", "update", "leads",
                              [id |-> details.leadId, user_id |-> user],
                              DetailsPayload(data),
                              [leadId |-> details.leadId, status |-> data.status,
                               leads |-> details.lead]))
  /\ fx' = {}
  /\ UNCHANGED <<user, page, variant, leadsTbl, rowsTbl, nextId, notifs,
                 deals, dash, forms, busy, lists, contact>>

\* setLead({ ...lead, ...the written columns }) with the lead of the closure
DetailsSaved(lead, payload) == [k \in 1..Len(lead) |-> Patch(lead[k], payload)]

DetailsSaveDone(m) ==
  /\ m \in InFlight
  /\ m.stage = "resp"
  /\ m.origin = "details.onSubmit"
  /\ IF m.ok
     THEN /\ details' = IF m.live
                        THEN [details EXCEPT !.lead = DetailsSaved(m.ctx.leads, m.payload),
                                             !.saving = FALSE]
                        ELSE details
          /\ fx' = Toast("Lead updated successfully")
     ELSE /\ details' = IF m.live THEN [details EXCEPT !.saving = FALSE] ELSE details
          /\ fx' = LogAndToast("Error updating lead", "Failed to update lead")
  /\ net' = Gone(net, m)
  /\ UNCHANGED <<user, page, variant, leadsTbl, rowsTbl, nextId, notifs,
                 deals, dash, forms, busy, lists, contact>>

\* addActivity: the row it inserts
ActivityPayload(uid, leadId) == [user_id |-> uid, lead_id |-> leadId, completed |-> FALSE]

AddActivity ==
  /\ DetailsShown
  /\ details.leadId # 0
  /\ user # NoUser
  /\ CanIssue
  /\ net' = Sent(net, Request("details.addActivity", "insert", "activities", NoPayload,
                              ActivityPayload(user, details.leadId),
                              [NoCtx EXCEPT !.leadId = details.leadId]))
  /\ fx' = {}
  /\ UNCHANGED <<user, page, variant, leadsTbl, rowsTbl, nextId, notifs,
                 deals, dash, details, forms, busy, lists, contact>>

\* addActivity after the insert: the activities are selected again
ActivityInserted(m) ==
  /\ m \in InFlight
  /\ m.stage = "resp"
  /\ m.origin = "details.addActivity"
  /\ IF m.ok
     THEN /\ net' = Sent(Gone(net, m),
                    Followup(m, DetailsActivitiesRequest("details.refreshActivities",
                                                          m.payload.user_id, m.ctx.leadId)))
          /\ fx' = {}
     ELSE /\ net' = Gone(net, m)
          /\ fx' = LogAndToast("Error adding activity", "Failed to add activity")
  /\ UNCHANGED <<user, page, variant, leadsTbl, rowsTbl, nextId, notifs,
                 deals, dash, details, forms, busy, lists, contact>>

ActivitiesRefreshed(m) ==
  /\ m \in InFlight
  /\ m.stage = "resp"
  /\ m.origin = "details.refreshActivities"
  /\ IF m.ok
     THEN /\ details' = IF m.live THEN [details EXCEPT !.activities = m.data] ELSE details
          /\ fx' = Toast("Activity added successfully")
     ELSE /\ details' = details
          /\ fx' = LogAndToast("Error adding activity", "Failed to add activity")
  /\ net' = Gone(net, m)
  /\ UNCHANGED <<user, page, variant, leadsTbl, rowsTbl, nextId, notifs,
                 deals, dash, forms, busy, lists, contact>>

\* onClick={() => toggleActivityCompletion(activity.id, !activity.completed)}:
\* the value the button of the activity row passes as `completed`
CompletionButton(activity) == ~activity.completed

\* toggleActivityCompletion(activityId, completed): update({ completed: !completed });
\* the closure keeps the activities of the render (ctx.leads)
ToggleActivityCompletion(activityId) ==
  /\ DetailsShown
  /\ CanIssue
  /\ \E k \in 1..Len(details.activities) :
       /\ details.activities[k].id = activityId
       /\ LET completed == CompletionButton(details.activities[k])
          IN  net' = Sent(net, Request("details.toggleActivityCompletion", "update",
                                       "activities",
                                       [id |-> activityId, user_id |-> user],
                                       [completed |-> ~completed],
                                       [leadId |-> activityId, status |-> "",
                                        leads |-> details.activities]))
  /\ fx' = {}
  /\ UNCHANGED <<user, page, variant, leadsTbl, rowsTbl, nextId, notifs,
                 deals, dash, details, forms, busy, lists, contact>>

\* activities.map(activity => activity.id === activityId
\*                            ? { ...activity, completed: !completed } : activity)
MapCompleted(activities, activityId, value) ==
  [k \in 1..Len(activities) |->
     IF activities[k].id = activityId
     THEN [activities[k] EXCEPT !.completed = value]
     ELSE activities[k]]

\* the continuation of toggleActivityCompletion after the awaited update
ToggleActivityDone(m) ==
  /\ m \in InFlight
  /\ m.stage = "resp"
  /\ m.origin = "details.toggleActivityCompletion"
  /\ IF m.ok
     THEN /\ details' = IF m.live
                        THEN [details EXCEPT !.activities =
                                MapCompleted(m.ctx.leads, m.ctx.leadId, m.payload.completed)]
                        ELSE details
          /\ fx' = {}
     ELSE /\ details' = details
          /\ fx' = LogAndToast("Error updating activity", "Failed to update activity")
  /\ net' = Gone(net, m)
  /\ UNCHANGED <<user, page, variant, leadsTbl, rowsTbl, nextId, notifs,
                 deals, dash, forms, busy, lists, contact>>

\* window.confirm(question): the prompt that is shown
Confirm(question) == {"confirm: " \o question}

\* LeadDetails.deleteLead: the prompt, then the delete of the lead of the route
DetailsDeleteLead(accepted) ==
  /\ DetailsShown
  /\ ~details.saving
  /\ details.leadId # 0
  /\ user # NoUser
  /\ accepted \in BOOLEAN
  /\ fx' = Confirm("Are you sure you want to delete this lead?")
  /\ IF accepted
     THEN /\ CanIssue
          /\ details' = [details EXCEPT !.saving = TRUE]
          /\ net' = Sent(net, Request("details.deleteLead", "delete", "leads",
                                      [id |-> details.leadId, user_id |-> user],
                                      NoPayload, [NoCtx EXCEPT !.leadId = details.leadId]))
     ELSE UNCHANGED <<details, net>>
  /\ UNCHANGED <<user, page, variant, leadsTbl, rowsTbl, nextId, notifs,
                 deals, dash, forms, busy, lists, contact>>

\* the continuation of LeadDetails.deleteLead: navigate('/leads') after a success
DetailsDeleteDone(m) ==
  /\ m \in InFlight
  /\ m.stage = "resp"
  /\ m.origin = "details.deleteLead"
  /\ IF m.ok
     THEN /\ Redirect("leads", 0, Gone(net, m))
          /\ fx' = Toast("Lead deleted successfully")
     ELSE /\ net' = Gone(net, m)
          /\ details' = IF m.live THEN [details EXCEPT !.saving = FALSE] ELSE details
          /\ fx' = LogAndToast("Error deleting lead", "Failed to delete lead")
          /\ UNCHANGED <<page, notifs, deals, dash, forms, busy, lists, contact>>
  /\ UNCHANGED <<user, variant, leadsTbl, rowsTbl, nextId>>

(***************************************************************************)
(* Forms (lead capture forms) and NewContact.                               *)
(***************************************************************************)
FormsFetchDone(m) ==
  /\ m \in InFlight
  /\ m.stage = "resp"
  /\ m.origin = "forms.fetchForms"
  /\ IF m.ok
     THEN /\ forms' = IF m.live THEN [forms EXCEPT !.forms = m.data, !.loading = FALSE]
                      ELSE forms
          /\ fx' = {}
     ELSE /\ forms' = IF m.live THEN [forms EXCEPT !.loading = FALSE] ELSE forms
          /\ fx' = LogAndToast("Error fetching forms", "Failed to load forms")
  /\ net' = Gone(net, m)
  /\ UNCHANGED <<user, page, variant, leadsTbl, rowsTbl, nextId, notifs,
                 deals, dash, details, busy, lists, contact>>

\* fault for C10: a form row that always belongs to u1
FormPayloadOfFirstUser(uid) == [user_id |-> "u1", lead_id |-> NoLead, completed |-> FALSE]

\* createForm: the row it inserts
FormPayload(uid) == [user_id |-> uid, lead_id |-> NoLead, completed |-> FALSE]

CreateForm ==
  /\ page = "forms"
  /\ ~forms.creating
  /\ user # NoUser
  /\ CanIssue
  /\ forms' = [forms EXCEPT !.creating = TRUE]
  /\ net' = Sent(net, Request("forms.createForm", "insert", "lead_forms", NoPayload,
                              FormPayload(user), [NoCtx EXCEPT !.leads = forms.forms]))
  /\ fx' = {}
  /\ UNCHANGED <<user, page, variant, leadsTbl, rowsTbl, nextId, notifs,
                 deals, dash, details, busy, lists, contact>>

\* the continuation of createForm: setForms([newForm, ...forms])
CreateFormDone(m) ==
  /\ m \in InFlight
  /\ m.stage = "resp"
  /\ m.origin = "forms.createForm"
  /\ IF m.ok
     THEN /\ forms' = IF m.live
                      THEN [forms EXCEPT !.forms = m.data \o m.ctx.leads, !.creating = FALSE]
                      ELSE forms
          /\ fx' = Toast("Form created successfully")
     ELSE /\ forms' = IF m.live THEN [forms EXCEPT !.creating = FALSE] ELSE forms
          /\ fx' = LogAndToast("Error creating form", "Failed to create form")
  /\ net' = Gone(net, m)
  /\ UNCHANGED <<user, page, variant, leadsTbl, rowsTbl, nextId, notifs,
                 deals, dash, details, busy, lists, contact>>

\* deleteForm(id): the prompt, then the delete of the form
DeleteForm(id, accepted) ==
  /\ page = "forms"
  /\ ~forms.loading
  /\ id \in {forms.forms[k].id : k \in 1..Len(forms.forms)}
  /\ user # NoUser
  /\ accepted \in BOOLEAN
  /\ fx' = Confirm("Are you sure you want to delete this form?")
  /\ IF accepted
     THEN /\ CanIssue
          /\ net' = Sent(net, Request("forms.deleteForm", "delete", "lead_forms",
                                      [id |-> id, user_id |-> user], NoPayload,
                                      [leadId |-> id, status |-> "", leads |-> forms.forms]))
     ELSE net' = net
  /\ UNCHANGED <<user, page, variant, leadsTbl, rowsTbl, nextId, notifs,
                 deals, dash, details, forms, busy, lists, contact>>

DeleteFormDone(m) ==
  /\ m \in InFlight
  /\ m.stage = "resp"
  /\ m.origin = "forms.deleteForm"
  /\ IF m.ok
     THEN /\ forms' = IF m.live
                      THEN [forms EXCEPT !.forms = Without(m.ctx.leads, m.ctx.leadId)]
                      ELSE forms
          /\ fx' = Toast("Form deleted successfully")
     ELSE /\ forms' = forms
          /\ fx' = LogAndToast("Error deleting form", "Failed to delete form")
  /\ net' = Gone(net, m)
  /\ UNCHANGED <<user, page, variant, leadsTbl, rowsTbl, nextId, notifs,
                 deals, dash, details, busy, lists, contact>>

\* NewContact: the continuation of its fetchLeads; a failure is only logged
NewContactLeadsFetched(m) ==
  /\ m \in InFlight
  /\ m.stage = "resp"
  /\ m.origin = "newContact.fetchLeads"
  /\ IF m.ok
     THEN /\ busy' = IF m.live THEN [busy EXCEPT !.leads = m.data, !.loadingLeads = FALSE]
                     ELSE busy
          /\ fx' = {}
     ELSE /\ busy' = IF m.live THEN [busy EXCEPT !.loadingLeads = FALSE] ELSE busy
          /\ fx' = {"console.error: Error fetching leads"}
  /\ net' = Gone(net, m)
  /\ UNCHANGED <<user, page, variant, leadsTbl, rowsTbl, nextId, notifs,
                 deals, dash, details, forms, lists, contact>>

\* NewContact.onSubmit: the row it inserts (lead_id: data.lead_id || null)
ContactPayload(uid, leadId) == [user_id |-> uid, lead_id |-> leadId, completed |-> FALSE]

\* the lead the form holds: none, one of the fetched leads, or the ?leadId=
LeadChoices == {NoLead, busy.leadIdFromQuery} \cup {busy.leads[k].id : k \in 1..Len(busy.leads)}

SubmitNewContact(leadId) ==
  /\ page = "newContact"
  /\ leadId \in LeadChoices
  /\ ~busy.newContact
  /\ user # NoUser
  /\ CanIssue
  /\ busy' = [busy EXCEPT !.newContact = TRUE]
  /\ net' = Sent(net, Request("newContact.onSubmit", "insert", "contacts", NoPayload,
                              ContactPayload(user, leadId),
                              [NoCtx EXCEPT !.leadId = busy.leadIdFromQuery]))
  /\ fx' = {}
  /\ UNCHANGED <<user, page, variant, leadsTbl, rowsTbl, nextId, notifs,
                 deals, dash, details, forms, lists, contact>>

\* the continuation of NewContact.onSubmit: back to the lead, or to /contacts
NewContactDone(m) ==
  /\ m \in InFlight
  /\ m.stage = "resp"
  /\ m.origin = "newContact.onSubmit"
  /\ IF m.ok
     THEN /\ IF m.ctx.leadId # 0
             THEN Redirect("leadDetails", m.ctx.leadId, Gone(net, m))
             ELSE Redirect("contacts", 0, Gone(net, m))
          /\ fx' = Toast("Contact created successfully")
     ELSE /\ net' = Gone(net, m)
          /\ busy' = IF m.live THEN [busy EXCEPT !.newContact = FALSE] ELSE busy
          /\ fx' = LogAndToast("Error creating contact", "Failed to create contact")
          /\ UNCHANGED <<page, notifs, deals, dash, details, forms, lists, contact>>
  /\ UNCHANGED <<user, variant, leadsTbl, rowsTbl, nextId>>

(***************************************************************************)
(* ContactDetails.                                                          *)
(***************************************************************************)
\* the continuation of fetchContactDetails: setContact, or the catch branch
ContactFetched(m) ==
  /\ m \in InFlight
  /\ m.stage = "resp"
  /\ m.origin = "contact.fetchContactDetails"
  /\ IF m.ok
     THEN /\ contact' = IF m.live
                        THEN [contact EXCEPT !.contact = m.data, !.loading = FALSE]
                        ELSE contact
          /\ net' = Gone(net, m)
          /\ fx' = {}
          /\ UNCHANGED <<page, notifs, deals, dash, details, forms, busy, lists>>
     ELSE /\ Redirect("contacts", 0, Gone(net, m))
          /\ fx' = LogAndToast("Error fetching contact details",
                               "Failed to load contact details") \cup SetLoading(FALSE)
  /\ UNCHANGED <<user, variant, leadsTbl, rowsTbl, nextId>>

\* the continuation of ContactDetails.fetchLeads; a failure is only logged
ContactLeadsFetched(m) ==
  /\ m \in InFlight
  /\ m.stage = "resp"
  /\ m.origin = "contact.fetchLeads"
  /\ IF m.ok
     THEN /\ contact' = IF m.live
                        THEN [contact EXCEPT !.leads = m.data, !.loadingLeads = FALSE]
                        ELSE contact
          /\ fx' = {}
     ELSE /\ contact' = IF m.live THEN [contact EXCEPT !.loadingLeads = FALSE] ELSE contact
          /\ fx' = {"console.error: Error fetching leads"}
  /\ net' = Gone(net, m)
  /\ UNCHANGED <<user, page, variant, leadsTbl, rowsTbl, nextId, notifs,
                 deals, dash, details, forms, busy, lists>>

\* the form is rendered once the page has loaded a contact
ContactShown == page = "contactDetails" /\ ~contact.loading /\ contact.contact # <<>>

\* the lead the select of the form offers: none, or one of the fetched leads
ContactLeadChoices == {NoLead} \cup {contact.leads[k].id : k \in 1..Len(contact.leads)}

\* ContactDetails.onSubmit: update of lead_id (lead_id: data.lead_id || null)
SubmitContact(leadId) ==
  /\ ContactShown
  /\ leadId \in ContactLeadChoices
  /\ ~contact.saving
  /\ contact.contactId # 0
  /\ user # NoUser
  /\ CanIssue
  /\ contact' = [contact EXCEPT !.saving = TRUE]
  /\ net' = Sent(net, Request("contact.onSubmit", "update", "contacts",
                              [id |-> contact.contactId, user_id |-> user],
                              [lead_id |-> leadId],
                              [leadId |-> leadId, status |-> "", leads |-> contact.contact]))
  /\ fx' = {}
  /\ UNCHANGED <<user, page, variant, leadsTbl, rowsTbl, nextId, notifs,
                 deals, dash, details, forms, busy, lists>>

ContactSaveDone(m) ==
  /\ m \in InFlight
  /\ m.stage = "resp"
  /\ m.origin = "contact.onSubmit"
  /\ IF m.ok
     THEN /\ contact' = IF m.live
                        THEN [contact EXCEPT !.contact = DetailsSaved(m.ctx.leads, m.payload),
                                             !.saving = FALSE]
                        ELSE contact
          /\ fx' = Toast("Contact updated successfully")
     ELSE /\ contact' = IF m.live THEN [contact EXCEPT !.saving = FALSE] ELSE contact
          /\ fx' = LogAndToast("Error updating contact", "Failed to update contact")
  /\ net' = Gone(net, m)
  /\ UNCHANGED <<user, page, variant, leadsTbl, rowsTbl, nextId, notifs,
                 deals, dash, details, forms, busy, lists>>

\* ContactDetails.deleteContact: the prompt, then the delete of the contact
ContactDelete(accepted) ==
  /\ ContactShown
  /\ ~contact.saving
  /\ contact.contactId # 0
  /\ user # NoUser
  /\ accepted \in BOOLEAN
  /\ fx' = Confirm("Are you sure you want to delete this contact?")
  /\ IF accepted
     THEN /\ CanIssue
          /\ contact' = [contact EXCEPT !.saving = TRUE]
          /\ net' = Sent(net, Request("contact.deleteContact", "delete", "contacts",
                                      [id |-> contact.contactId, user_id |-> user],
                                      NoPayload, [NoCtx EXCEPT !.leadId = contact.contactId]))
     ELSE UNCHANGED <<contact, net>>
  /\ UNCHANGED <<user, page, variant, leadsTbl, rowsTbl, nextId, notifs,
                 deals, dash, details, forms, busy, lists>>

\* the continuation of deleteContact: navigate('/contacts') after a success
ContactDeleteDone(m) ==
  /\ m \in InFlight
  /\ m.stage = "resp"
  /\ m.origin = "contact.deleteContact"
  /\ IF m.ok
     THEN /\ Redirect("contacts", 0, Gone(net, m))
          /\ fx' = Toast("Contact deleted successfully")
     ELSE /\ net' = Gone(net, m)
          /\ contact' = IF m.live THEN [contact EXCEPT !.saving = FALSE] ELSE contact
          /\ fx' = LogAndToast("Error deleting contact", "Failed to delete contact")
          /\ UNCHANGED <<page, notifs, deals, dash, details, forms, busy, lists>>
  /\ UNCHANGED <<user, variant, leadsTbl, rowsTbl, nextId>>

(***************************************************************************)
(* The initial state: nobody is signed in, the login page is shown, and the *)
(* database holds leads that were created through the new-lead form.        *)
(***************************************************************************)
\* lead 1 belongs to u1; lead 2 belongs to uid
SeedTable(uid) ==
  <<NewLeadPayload("u1", [source |-> "Website", status |-> "New Lead", revenue |-> "5",
                          specialization |-> "Data Science"]),
    NewLeadPayload(uid, [source |-> "Referral", status |-> "Paid", revenue |-> "",
                         specialization |-> ""])>>

SeedTables == {SeedTable(uid) : uid \in Users}

Init ==
  /\ user = NoUser
  /\ page = "login"
  /\ variant \in {"A", "B"}
  /\ leadsTbl \in SeedTables
  /\ rowsTbl = <<>>
  /\ nextId = 2
  /\ net = EmptyBag
  /\ notifs = <<>>
  /\ deals = DealsInit
  /\ dash = DashInit(variant)
  /\ details = DetailsInit
  /\ forms = FormsInit
  /\ busy = BusyInit
  /\ lists = ListsInit
  /\ contact = ContactInit
  /\ fx = {}

(***************************************************************************)
(* Specifications.                                                          *)
(***************************************************************************)
Session ==
  \/ \E uid \in Users : SignIn(uid)
  \/ SignOut

Database ==
  \/ \E m \in InFlight : ServeSelect(m)
  \/ \E m \in InFlight : ServeUpdate(m)
  \/ \E m \in InFlight : ServeInsert(m)
  \/ \E m \in InFlight : ServeDelete(m)
  \/ \E m \in InFlight : ServeRefused(m)
  \/ \E m \in InFlight : ServeError(m)

Kanban ==
  \/ \E leadId \in 1..MaxIds, status \in Range(DealsStatuses) : HandleDrop(leadId, status)
  \/ \E m \in InFlight : UpdateLeadStatusDone(m)
  \/ \E m \in InFlight : DealsFetchDone(m)

DashboardPage ==
  \/ OnLeadsChange
  \/ \E m \in InFlight : DashFetchDone(m)

LeadPages ==
  \/ \E data \in LeadFormValues(NewLeadStatuses) : SubmitNewLead(data)
  \/ \E m \in InFlight : NewLeadDone(m)
  \/ \E m \in InFlight : DetailsLeadFetched(m)
  \/ \E m \in InFlight : DetailsActivitiesFetched(m)
  \/ \E data \in LeadFormValues(LeadDetailsStatuses) : SubmitDetails(data)
  \/ \E m \in InFlight : DetailsSaveDone(m)
  \/ AddActivity
  \/ \E m \in InFlight : ActivityInserted(m)
  \/ \E m \in InFlight : ActivitiesRefreshed(m)
  \/ \E accepted \in BOOLEAN : DetailsDeleteLead(accepted)
  \/ \E m \in InFlight : DetailsDeleteDone(m)
  \/ \E id \in 1..MaxIds : ToggleActivityCompletion(id)
  \/ \E m \in InFlight : ToggleActivityDone(m)

ListPages ==
  \/ \E term \in SearchInputs : SetSearchTerm(term)
  \/ \E status \in {""} \cup Range(LeadsStatuses) : SetFilterStatus(status)
  \/ \E field \in {"created_at", "full_name"} : HandleSort(field)
  \/ \E field \in FilterFields : \E value \in FilterInputs(field) :
       HandleFilterChange(field, value)
  \/ \E m \in InFlight : LeadsFetchDone(m)
  \/ \E id \in 1..MaxIds : ListDeleteLead(id)
  \/ \E m \in InFlight : ListDeleteLeadDone(m)
  \/ \E m \in InFlight : ContactsFetchDone(m)
  \/ \E id \in 1..MaxIds : ListDeleteContact(id)
  \/ \E m \in InFlight : ListDeleteContactDone(m)

ContactPage ==
  \/ \E m \in InFlight : ContactFetched(m)
  \/ \E m \in InFlight : ContactLeadsFetched(m)
  \/ \E leadId \in 0..MaxIds : SubmitContact(leadId)
  \/ \E m \in InFlight : ContactSaveDone(m)
  \/ \E accepted \in BOOLEAN : ContactDelete(accepted)
  \/ \E m \in InFlight : ContactDeleteDone(m)

OtherPages ==
  \/ \E m \in InFlight : FormsFetchDone(m)
  \/ CreateForm
  \/ \E m \in InFlight : CreateFormDone(m)
  \/ \E m \in InFlight : NewContactLeadsFetched(m)
  \/ \E leadId \in 0..MaxIds : SubmitNewContact(leadId)
  \/ \E m \in InFlight : NewContactDone(m)
  \/ \E id \in 1..MaxIds, accepted \in BOOLEAN : DeleteForm(id, accepted)
  \/ \E m \in InFlight : DeleteFormDone(m)

OtherSession ==
  \/ \E leadId \in 1..MaxIds, status \in Range(DealsStatuses) :
       OtherSessionDrop(leadId, status)
  \/ \E data \in LeadFormValues(NewLeadStatuses) :
       OtherSessionInsert(NewLeadPayload(user, data))
  \/ \E leadId \in 1..MaxIds : OtherSessionDelete(leadId)
  \/ \E table \in {"contacts", "activities"}, leadId \in 0..MaxIds : DirectInsert(table, leadId)
  \/ \E m \in InFlight : DirectInsertDone(m)

Next ==
  \/ Session
  \/ \E p \in Pages : \E q \in RouteParams(p) : Navigate(p, q)
  \/ \E path \in Paths, q \in 0..MaxIds : OpenPath(path, q)
  \/ Database
  \/ Kanban
  \/ DashboardPage
  \/ LeadPages
  \/ ListPages
  \/ ContactPage
  \/ OtherPages
  \/ OtherSession

Spec == Init /\ [][Next]_vars

(***************************************************************************)
(* The kanban board on its own: the user signs in, opens the board and      *)
(* drops cards, one operation at a time (Idle: nothing is in flight).       *)
(***************************************************************************)
Idle == net = EmptyBag

NextKanban ==
  \/ \E uid \in Users : SignIn(uid)
  \/ Idle /\ SignOut
  \/ Idle /\ Navigate("deals", 0)
  \/ \E m \in InFlight : ServeSelect(m)
  \/ \E m \in InFlight : ServeUpdate(m)
  \/ \E m \in InFlight : ServeError(m)
  \/ Idle /\ \E leadId \in 1..MaxIds, status \in Range(DealsStatuses) :
               HandleDrop(leadId, status)
  \/ \E m \in InFlight : UpdateLeadStatusDone(m)
  \/ \E m \in InFlight : DealsFetchDone(m)
  \/ \E m \in InFlight : DashFetchDone(m)

SpecKanban == Init /\ [][NextKanban]_vars

\* the requests a step sends
Issued == net' (-) net

\* the local entry of lead leadId in a list of fetched leads
Shown(leads, leadId) == {leads[k].status : k \in {j \in 1..Len(leads) : leads[j].id = leadId}}

\* C1: a drop of lead L on column S sends exactly one request: an update of the
\* leads table filtered on id = L and user_id = the current user whose payload
\* is the column status = S alone; the drop itself writes nothing, and the
\* database, serving that update, changes the status of row L if the user owns
\* it and no other row and no other column.
C1_DropUpdatesOneStatus ==
  [][/\ \A leadId \in 1..MaxIds, status \in Range(DealsStatuses) :
          HandleDrop(leadId, status) =>
            /\ BagCardinality(Issued) = 1
            /\ \A r \in BagToSet(Issued) :
                  /\ r.stage = "req" /\ r.op = "update" /\ r.table = "leads"
                  /\ r.filter = [id |-> leadId, user_id |-> user]
                  /\ r.payload = [status |-> status]
                  /\ r.jwt = user
            /\ leadsTbl' = leadsTbl
            /\ rowsTbl' = rowsTbl
     /\ \A m \in InFlight :
          (m.origin = "deals.updateLeadStatus" /\ ServeUpdate(m)) =>
            /\ DOMAIN leadsTbl' = DOMAIN leadsTbl
            /\ \A i \in DOMAIN leadsTbl :
                  leadsTbl'[i] = IF i = m.ctx.leadId /\ leadsTbl[i].user_id = m.jwt
                                 THEN [leadsTbl[i] EXCEPT !.status = m.ctx.status]
                                 ELSE leadsTbl[i]
            /\ rowsTbl' = rowsTbl]_vars

\* a user who owns two leads dropped one on another column and the database
\* has served the update
C1_Witness ==
  \E m \in InFlight :
    /\ m.origin = "deals.updateLeadStatus" /\ m.stage = "resp" /\ m.ok
    /\ Cardinality(Policy(leadsTbl, m.jwt)) = 2
    /\ leadsTbl[m.ctx.leadId].status = m.ctx.status
    /\ m.ctx.status \notin Shown(m.ctx.leads, m.ctx.leadId)

C3_FailureOnlyLogsAndToasts ==
  [][\A m \in InFlight :
       (UpdateLeadStatusDone(m) /\ ~m.ok) =>
         /\ fx' = {"console.error: Error updating lead status",
                   "toast.error: Failed to update lead status"}
         /\ deals' = deals
         /\ Issued = EmptyBag
         /\ BagCardinality(net') = BagCardinality(net) - 1
         /\ page' = page
         /\ leadsTbl' = leadsTbl]_vars

\* a drop on another column has failed and the board has handled the failure
C3_Witness ==
  /\ page = "deals"
  /\ fx = {"console.error: Error updating lead status",
           "toast.error: Failed to update lead status"}
  /\ Len(deals.leads) = 2
  /\ net = EmptyBag

(***************************************************************************)
(* The dashboard on its own: the user signs in and stays on the dashboard   *)
(* while another session of the same user moves, creates and deletes leads. *)
(* Each user owns one of the two stored leads.                              *)
(***************************************************************************)
InitDash == Init /\ leadsTbl = SeedTable("u2")

\* the lead the other session creates
OtherLead == [source |-> "Website", status |-> "Qualified", revenue |-> "5",
              specialization |-> ""]

NextDash ==
  \/ \E uid \in Users : SignIn(uid)
  \/ \E m \in InFlight : ServeSelect(m)
  \/ \E m \in InFlight : ServeError(m)
  \/ OnLeadsChange
  \/ \E m \in InFlight : DashFetchDone(m)
  \/ \E leadId \in 1..MaxIds, status \in {"Qualified", "Lost Lead"} :
       OtherSessionDrop(leadId, status)
  \/ OtherSessionInsert(NewLeadPayload(user, OtherLead))
  \/ \E leadId \in 1..MaxIds : OtherSessionDelete(leadId)

SpecDash == InitDash /\ [][NextDash]_vars

\* what the dashboard computes from a list of fetched leads
Aggregates(v, leads) == IF v = "A" THEN ComputeStatsA(leads) ELSE ComputeStatsB(leads)

Groupings(v, leads) ==
  IF v = "A" THEN <<SourceDataA(leads), SpecializationDataA(leads)>>
  ELSE <<<<>>, SpecializationDataB(leads)>>

\* the leads of the signed-in user that the database holds now
StoredLeads == SelectRows(leadsTbl, user, [user_id |-> user], FALSE)

\* C4: on the mounted dashboard every realtime notification is handled on its
\* own, whatever is in flight: its handler takes that one notification, sends
\* exactly one select of all leads of the user and leaves the statistics and
\* the groupings as they are; the statistics and the groupings change only
\* when a successful fetch is delivered (or the page is mounted anew), and
\* then they are the aggregates of the fetched list alone.
C4_EveryNotificationRefetches ==
  [][/\ OnLeadsChange =>
          /\ notifs' = Tail(notifs)
          /\ BagCardinality(Issued) = 1
          /\ \A r \in BagToSet(Issued) :
                /\ r.stage = "req" /\ r.op = "select" /\ r.table = "leads"
                /\ r.filter = [user_id |-> user] /\ ~r.single
          /\ dash'.stats = dash.stats
          /\ dash'.leadsBySource = dash.leadsBySource
          /\ dash'.leadsBySpecialization = dash.leadsBySpecialization
     /\ (page = "dashboard" /\ notifs # <<>> /\ CanIssue) => ENABLED OnLeadsChange
     /\ \A m \in InFlight :
          (DashFetchDone(m) /\ m.ok /\ m.live) =>
            /\ dash'.stats = Aggregates(variant, m.data)
            /\ <<dash'.leadsBySource, dash'.leadsBySpecialization>> = Groupings(variant, m.data)
     /\ <<dash'.stats, dash'.leadsBySource, dash'.leadsBySpecialization>>
          # <<dash.stats, dash.leadsBySource, dash.leadsBySpecialization>> =>
            \/ page' # page
            \/ \E m \in InFlight : m.ok /\ DashFetchDone(m)]_vars

\* two notifications were handled one after the other and both fetches are
\* still in flight
C4_Witness ==
  /\ page = "dashboard"
  /\ notifs = <<>>
  /\ \E m \in InFlight :
       /\ m.origin = "dash.fetchDashboardData" /\ m.stage = "req" /\ m.live
       /\ CopiesIn(m, net) = 2

\* C5 as stated: when nothing is in flight any more, no notification is
\* pending and no fetch has failed, the statistics on the dashboard are the
\* aggregates of the leads of the user that the database holds.
C5_LastRefreshWins ==
  (/\ page = "dashboard" /\ user # NoUser
   /\ net = EmptyBag /\ notifs = <<>>
   /\ ~dash.loading /\ ~dash.failed)
  => dash.stats = Aggregates(variant, StoredLeads)

(***************************************************************************)
(* The aggregation on its own: u1 has signed in, the dashboard has sent its *)
(* mount fetch, and the database holds any table of up to MaxFetched leads  *)
(* of u1 that the new-lead form can create.                                 *)
(***************************************************************************)
MaxFetched == 2

FetchedTables ==
  UNION {[1..n -> {NewLeadPayload("u1", data) : data \in LeadFormValues(NewLeadStatuses)}] :
           n \in 0..MaxFetched}

InitAggregate ==
  /\ user = "u1"
  /\ page = "dashboard"
  /\ variant \in {"A", "B"}
  /\ leadsTbl \in FetchedTables
  /\ rowsTbl = <<>>
  /\ nextId = Len(leadsTbl)
  /\ net = SetToBag(MountFetch("dashboard", 0, "u1"))
  /\ notifs = <<>>
  /\ deals = DealsInit
  /\ dash = [DashInit(variant) EXCEPT !.loading = TRUE]
  /\ details = DetailsInit
  /\ forms = FormsInit
  /\ busy = BusyInit
  /\ lists = ListsInit
  /\ contact = ContactInit
  /\ fx = Toast("Logged in successfully")

NextAggregate ==
  \/ \E m \in InFlight : ServeSelect(m)
  \/ \E m \in InFlight : ServeError(m)
  \/ \E m \in InFlight : DashFetchDone(m)

SpecAggregate == InitAggregate /\ [][NextAggregate]_vars

\* the reference aggregation: the leads of Ls, by position, whose status is in S
Having(Ls, S) == {k \in 1..Len(Ls) : Ls[k].status \in S}

\* the sum of the revenues of the leads at the positions K, a null revenue being 0
RECURSIVE RevenueOver(_, _)
RevenueOver(Ls, K) ==
  IF K = {} THEN 0
  ELSE LET k == CHOOSE x \in K : TRUE
       IN  (IF Ls[k].revenue = NoNumber THEN 0 ELSE Ls[k].revenue[1]) + RevenueOver(Ls, K \ {k})

\* the statistic that counts the leads of a status
CounterOf ==
  [s \in Range(NewLeadStatuses) |->
     CASE s = "New Lead"    -> "newLeads"
       [] s = "Junk Lead"   -> "junkLeads"
       [] s = "Prospecting" -> "prospectingLeads"
       [] s = "Qualified"   -> "qualifiedLeads"
       [] s = "Paid"        -> "paidLeads"
       [] s = "Lost Lead"   -> "lostLeads"
       [] s = "Postpone"    -> "postponeLeads"]

\* C6: when the dashboard with the capitalised status vocabulary (variant A)
\* handles a successful fetch of the list Ls, its statistics are the reference
\* aggregation of Ls: totalLeads = |Ls|, the counter of each of the seven
\* statuses is the number of leads of Ls with that status, activeLeads is the
\* number of leads that are neither Paid nor Lost Lead nor Junk Lead,
\* revenueGenerated is the revenue of the Paid leads and potentialRevenue the
\* revenue of the Prospecting and Qualified leads, a null revenue being 0.
C6_StatsAreReferenceAggregation ==
  [][\A m \in InFlight :
       (variant = "A" /\ DashFetchDone(m) /\ m.ok /\ m.live) =>
         LET Ls == m.data
             st == dash'.stats
         IN  /\ st.totalLeads = Len(Ls)
             /\ \A s \in Range(NewLeadStatuses) :
                   st[CounterOf[s]] = Cardinality(Having(Ls, {s}))
             /\ st.activeLeads =
                   Len(Ls) - Cardinality(Having(Ls, {"Paid", "Lost Lead", "Junk Lead"}))
             /\ st.revenueGenerated = RevenueOver(Ls, Having(Ls, {"Paid"}))
             /\ st.potentialRevenue = RevenueOver(Ls, Having(Ls, {"Prospecting", "Qualified"}))]_vars

\* variant A has shown the statistics of a Qualified lead with a revenue and a
\* Paid lead without one
C6_Witness ==
  /\ variant = "A"
  /\ page = "dashboard"
  /\ ~dash.loading /\ ~dash.failed
  /\ dash.stats.totalLeads = 2
  /\ dash.stats.qualifiedLeads = 1
  /\ dash.stats.paidLeads = 1
  /\ dash.stats.potentialRevenue = 5
  /\ dash.stats.revenueGenerated = 0

\* the group a lead belongs to in a grouping by specialization
SpecializationKey(lead) ==
  IF lead.specialization \in {NULL, ""} THEN "Unknown" ELSE lead.specialization

RECURSIVE SumCounts(_)
SumCounts(groups) ==
  IF groups = <<>> THEN 0 ELSE Head(groups).count + SumCounts(Tail(groups))

\* groups partitions the leads whose keys are keys: every lead is in exactly
\* one group, every group counts the leads with its key, and the counts sum to
\* the number of leads
Partitions(groups, keys) ==
  /\ \A k \in 1..Len(keys) :
       Cardinality({j \in 1..Len(groups) : groups[j].key = keys[k]}) = 1
  /\ \A j \in 1..Len(groups) :
       groups[j].count = Cardinality({k \in 1..Len(keys) : keys[k] = groups[j].key})
  /\ SumCounts(groups) = Len(keys)

\* C7 as stated: when a dashboard handles a successful fetch of the list Ls,
\* its per-specialization grouping partitions Ls, and so does the per-source
\* grouping of the dashboard that has one (variant A).
C7_GroupingsPartition ==
  [][\A m \in InFlight :
       (DashFetchDone(m) /\ m.ok /\ m.live) =>
         LET Ls == m.data
         IN  /\ Partitions(dash'.leadsBySpecialization,
                           [k \in 1..Len(Ls) |-> SpecializationKey(Ls[k])])
             /\ variant = "A" =>
                  Partitions(dash'.leadsBySource, [k \in 1..Len(Ls) |-> Ls[k].source])]_vars

(***************************************************************************)
(* The pages that write the status of a lead: the new-lead form, the form   *)
(* of the detail view and the kanban board, used one operation at a time.   *)
(* The forms are submitted with every status their <select> offers.         *)
(***************************************************************************)
InitLeads == Init /\ leadsTbl = SeedTable("u2")

\* a submitted lead form with the status chosen and nothing else changed
StatusChoice(status) ==
  [source |-> "Website", status |-> status, revenue |-> "", specialization |-> ""]

NextLeads ==
  \/ \E uid \in Users : SignIn(uid)
  \/ Idle /\ \E p \in {"newLead", "leadDetails", "deals"} :
               \E q \in RouteParams(p) : Navigate(p, q)
  \/ \E m \in InFlight : ServeSelect(m)
  \/ \E m \in InFlight : ServeUpdate(m)
  \/ \E m \in InFlight : ServeInsert(m)
  \/ \E m \in InFlight : ServeError(m)
  \/ \E m \in InFlight : DashFetchDone(m)
  \/ Idle /\ \E status \in Range(NewLeadStatuses) : SubmitNewLead(StatusChoice(status))
  \/ \E m \in InFlight : NewLeadDone(m)
  \/ \E m \in InFlight : DetailsLeadFetched(m)
  \/ \E m \in InFlight : DetailsActivitiesFetched(m)
  \/ Idle /\ \E status \in Range(LeadDetailsStatuses) : SubmitDetails(StatusChoice(status))
  \/ \E m \in InFlight : DetailsSaveDone(m)
  \/ Idle /\ \E leadId \in 1..MaxIds, status \in Range(DealsStatuses) :
               HandleDrop(leadId, status)
  \/ \E m \in InFlight : UpdateLeadStatusDone(m)
  \/ \E m \in InFlight : DealsFetchDone(m)
  \/ \E m \in InFlight : LeadsFetchDone(m)

SpecLeads == InitLeads /\ [][NextLeads]_vars

\* the enumerated set of lead statuses
EnumeratedStatuses ==
  {"New Lead", "Junk Lead", "Prospecting", "Qualified", "Paid", "Lost Lead", "Postpone"}

\* the cards the board renders: the leads whose status is one of its columns
Cards == {deals.leads[k].id : k \in {j \in 1..Len(deals.leads) :
                                      deals.leads[j].status \in Range(DealsStatuses)}}

\* C8: no operation looks at the current status of a lead before it writes a
\* new one.  Whatever the lead shown in the detail view holds, the form can be
\* saved with each of the seven statuses; whatever column a card is in, it can
\* be dropped on each column of the board; neither update filters on status,
\* and the database, serving it, sets the status of the selected row to the
\* status of the payload whatever the row held.
C8_TransitionsUnrestricted ==
  [][/\ (DetailsShown /\ ~details.saving /\ user # NoUser /\ CanIssue) =>
          \A t \in EnumeratedStatuses : ENABLED SubmitDetails(StatusChoice(t))
     /\ (page = "deals" /\ ~deals.loading /\ CanIssue) =>
          \A leadId \in Cards, t \in Range(DealsStatuses) : ENABLED HandleDrop(leadId, t)
     /\ \A m \in InFlight :
          (m.origin \in {"deals.updateLeadStatus", "details.onSubmit"} /\ ServeUpdate(m)) =>
            /\ DOMAIN m.filter = {"id", "user_id"}
            /\ \A i \in DOMAIN leadsTbl :
                  (i = m.filter.id /\ leadsTbl[i].user_id = m.jwt) =>
                    leadsTbl'[i].status = m.payload.status]_vars

\* a detail-view save has moved a Paid lead back to New Lead
C8_Witness ==
  \E m \in InFlight :
    /\ m.origin = "details.onSubmit" /\ m.stage = "resp" /\ m.ok
    /\ m.ctx.leads # <<>>
    /\ m.ctx.leads[1].status = "Paid"
    /\ leadsTbl[m.ctx.leadId].status = "New Lead"

NextInserts ==
  \/ \E uid \in Users : SignIn(uid)
  \/ SignOut
  \/ Idle /\ \E p \in {"newLead", "leadDetails", "forms", "newContact"} :
               \E q \in RouteParams(p) : Navigate(p, q)
  \/ \E m \in InFlight : ServeSelect(m)
  \/ \E m \in InFlight : ServeInsert(m)
  \/ \E m \in InFlight : ServeError(m)
  \/ \E m \in InFlight : DashFetchDone(m)
  \/ Idle /\ SubmitNewLead(StatusChoice("New Lead"))
  \/ \E m \in InFlight : NewLeadDone(m)
  \/ \E m \in InFlight : DetailsLeadFetched(m)
  \/ \E m \in InFlight : DetailsActivitiesFetched(m)
  \/ Idle /\ AddActivity
  \/ \E m \in InFlight : ActivityInserted(m)
  \/ \E m \in InFlight : ActivitiesRefreshed(m)
  \/ \E m \in InFlight : FormsFetchDone(m)
  \/ Idle /\ CreateForm
  \/ \E m \in InFlight : CreateFormDone(m)
  \/ \E m \in InFlight : NewContactLeadsFetched(m)
  \/ Idle /\ \E leadId \in 0..MaxIds : SubmitNewContact(leadId)
  \/ \E m \in InFlight : NewContactDone(m)
  \/ \E m \in InFlight : LeadsFetchDone(m)
  \/ \E m \in InFlight : ContactsFetchDone(m)

SpecInserts == Init /\ [][NextInserts]_vars

\* the rows a step adds to the tables
AddedLeads == {leadsTbl'[i] : i \in DOMAIN leadsTbl' \ DOMAIN leadsTbl}

AddedRows == {rowsTbl'[i] : i \in DOMAIN rowsTbl' \ DOMAIN rowsTbl}

\* C10: every insert the client sends (a lead, a contact, an activity, a lead
\* form) is sent while a user is signed in and carries that user as user_id
\* and as the bearer of the request; the database stores the row under that
\* user, so that every stored row has one owner, who is a user.
C10_InsertsCarryTheUser ==
  [][/\ \A r \in BagToSet(Issued) :
          (r.stage = "req" /\ r.live /\ r.op = "insert") =>
            /\ user \in Users
            /\ r.payload.user_id = user
            /\ r.jwt = user
     /\ \A m \in InFlight :
          ServeInsert(m) =>
            /\ Cardinality(AddedLeads \cup AddedRows) = 1
            /\ \A row \in AddedLeads \cup AddedRows :
                  row.user_id = m.payload.user_id /\ row.user_id = m.jwt
     /\ \A i \in DOMAIN leadsTbl' : leadsTbl'[i].user_id \in Users
     /\ \A i \in DOMAIN rowsTbl' : rowsTbl'[i].user_id \in Users]_vars

\* u2 has created a lead form and the database has stored it
C10_Witness ==
  \E i \in DOMAIN rowsTbl :
    /\ rowsTbl[i].table = "lead_forms"
    /\ rowsTbl[i].user_id = "u2"
    /\ fx = Toast("Form created successfully")

(***************************************************************************)
(* Ownership of the rows: the two users, one after the other in the same    *)
(* browser, use the lists, the board and the new-contact form.              *)
(***************************************************************************)
InitOwnership == Init /\ variant = "A" /\ leadsTbl = SeedTable("u2")

NextOwnership ==
  \/ \E uid \in Users : SignIn(uid)
  \/ Idle /\ SignOut
  \/ Idle /\ \E p \in {"leads", "contacts", "newContact", "deals"} :
               \E q \in RouteParams(p) : Navigate(p, q)
  \/ \E m \in InFlight : ServeSelect(m)
  \/ \E m \in InFlight : ServeUpdate(m)
  \/ \E m \in InFlight : ServeInsert(m)
  \/ \E m \in InFlight : ServeDelete(m)
  \/ \E m \in InFlight : ServeRefused(m)
  \/ \E m \in InFlight : DashFetchDone(m)
  \/ \E m \in InFlight : LeadsFetchDone(m)
  \/ Idle /\ \E id \in 1..MaxIds : ListDeleteLead(id)
  \/ \E m \in InFlight : ListDeleteLeadDone(m)
  \/ \E m \in InFlight : ContactsFetchDone(m)
  \/ Idle /\ \E id \in 1..MaxIds : ListDeleteContact(id)
  \/ \E m \in InFlight : ListDeleteContactDone(m)
  \/ \E m \in InFlight : NewContactLeadsFetched(m)
  \/ Idle /\ \E leadId \in 0..MaxIds : SubmitNewContact(leadId)
  \/ \E m \in InFlight : NewContactDone(m)
  \/ \E m \in InFlight : DetailsLeadFetched(m)
  \/ \E m \in InFlight : DetailsActivitiesFetched(m)
  \/ \E m \in InFlight : DealsFetchDone(m)
  \/ Idle /\ \E leadId \in 1..MaxIds : HandleDrop(leadId, "Qualified")
  \/ \E m \in InFlight : UpdateLeadStatusDone(m)

SpecOwnership == InitOwnership /\ [][NextOwnership]_vars

\* the requests a step takes out of the flight, and the responses it puts in
Taken == BagToSet(net (-) net')

Answered == BagToSet(net' (-) net)

\* the rows of tbl that do not belong to uid are rows of the table after the step
Untouched(tbl, after, uid) ==
  \A i \in DOMAIN tbl : tbl[i].user_id # uid => i \in DOMAIN after /\ after[i] = tbl[i]

\* C11: row-level security scopes every table to the owner: a request the
\* database serves for a user returns only rows of that user, adds only rows
\* that carry the id of that user, and leaves every row of another user as it was.
C11_RowsScopedToOwner ==
  [][\A m \in Taken :
       m.stage = "req" =>
         /\ Untouched(leadsTbl, leadsTbl', m.jwt)
         /\ Untouched(rowsTbl, rowsTbl', m.jwt)
         /\ \A i \in DOMAIN leadsTbl' \ DOMAIN leadsTbl : leadsTbl'[i].user_id = m.jwt
         /\ \A i \in DOMAIN rowsTbl' \ DOMAIN rowsTbl : rowsTbl'[i].user_id = m.jwt
         /\ \A r \in Answered : \A k \in 1..Len(r.data) : r.data[k].user_id = m.jwt]_vars

(***************************************************************************)
(* References: user u1 owns one lead, adds an activity and a contact to it  *)
(* and deletes the lead, from the detail view or from the list.            *)
(***************************************************************************)
SeedLead ==
  <<NewLeadPayload("u1", [source |-> "Website", status |-> "New Lead", revenue |-> "5",
                          specialization |-> "Data Science"])>>

InitRefs ==
  /\ user = NoUser
  /\ page = "login"
  /\ variant = "A"
  /\ leadsTbl = SeedLead
  /\ rowsTbl = <<>>
  /\ nextId = 1
  /\ net = EmptyBag
  /\ notifs = <<>>
  /\ deals = DealsInit
  /\ dash = DashInit(variant)
  /\ details = DetailsInit
  /\ forms = FormsInit
  /\ busy = BusyInit
  /\ lists = ListsInit
  /\ contact = ContactInit
  /\ fx = {}

NextRefs ==
  \/ SignIn("u1")
  \/ Idle /\ \E p \in {"leads", "leadDetails", "newContact"} :
               \E q \in RouteParams(p) : Navigate(p, q)
  \/ \E m \in InFlight : ServeSelect(m)
  \/ \E m \in InFlight : ServeInsert(m)
  \/ \E m \in InFlight : ServeDelete(m)
  \/ \E m \in InFlight : ServeRefused(m)
  \/ \E m \in InFlight : DashFetchDone(m)
  \/ \E m \in InFlight : LeadsFetchDone(m)
  \/ \E m \in InFlight : ContactsFetchDone(m)
  \/ Idle /\ \E id \in 1..MaxIds : ListDeleteLead(id)
  \/ \E m \in InFlight : ListDeleteLeadDone(m)
  \/ \E m \in InFlight : DetailsLeadFetched(m)
  \/ \E m \in InFlight : DetailsActivitiesFetched(m)
  \/ Idle /\ AddActivity
  \/ \E m \in InFlight : ActivityInserted(m)
  \/ \E m \in InFlight : ActivitiesRefreshed(m)
  \/ Idle /\ \E accepted \in BOOLEAN : DetailsDeleteLead(accepted)
  \/ \E m \in InFlight : DetailsDeleteDone(m)
  \/ \E m \in InFlight : NewContactLeadsFetched(m)
  \/ Idle /\ \E leadId \in 1..MaxIds : SubmitNewContact(leadId)
  \/ \E m \in InFlight : NewContactDone(m)

SpecRefs == InitRefs /\ [][NextRefs]_vars

\* every reference of a stored row leads to a stored lead
ReferencesValid(leads, rows) ==
  \A i \in DOMAIN rows :
    /\ rows[i].table = "activities" => rows[i].lead_id \in DOMAIN leads
    /\ rows[i].table = "contacts" /\ rows[i].lead_id # NoLead => rows[i].lead_id \in DOMAIN leads

\* C12: the foreign keys keep the references valid: the lead_id of every
\* activity and every non-null lead_id of a contact is the id of a stored lead;
\* a step that deletes leads removes exactly the activities of those leads and
\* sets lead_id to null on the contacts that referenced them, changing nothing
\* else of those contacts and nothing of any other row.
C12_ForeignKeysKeepReferences ==
  [][LET gone == DOMAIN leadsTbl \ DOMAIN leadsTbl'
     IN  /\ ReferencesValid(leadsTbl', rowsTbl')
         /\ gone # {} =>
              /\ DOMAIN rowsTbl' =
                   {i \in DOMAIN rowsTbl : ~(rowsTbl[i].table = "activities"
                                             /\ rowsTbl[i].lead_id \in gone)}
              /\ \A i \in DOMAIN rowsTbl' :
                   rowsTbl'[i] = IF rowsTbl[i].table = "contacts" /\ rowsTbl[i].lead_id \in gone
                                 THEN [rowsTbl[i] EXCEPT !.lead_id = NoLead]
                                 ELSE rowsTbl[i]]_vars

\* the delete of the lead has been served after an activity and a contact were
\* added to it: the activity is gone, the contact is left without a lead (every
\* contact of this specification is created with a lead)
C12_Witness ==
  /\ leadsTbl = <<>>
  /\ nextId = 3
  /\ \E i \in DOMAIN rowsTbl :
       /\ DOMAIN rowsTbl = {i}
       /\ rowsTbl[i] = OtherRow("contacts", "u1", NoLead, FALSE)
  /\ \E m \in InFlight : m.op = "delete" /\ m.table = "leads" /\ m.stage = "resp" /\ m.ok

(***************************************************************************)
(* Optional references: user u1 creates contacts and activities, with and   *)
(* without a lead, through the pages and with direct inserts.               *)
(***************************************************************************)
NextOptional ==
  \/ SignIn("u1")
  \/ Idle /\ \E p \in {"leadDetails", "newContact"} :
               \E q \in RouteParams(p) : Navigate(p, q)
  \/ \E m \in InFlight : ServeSelect(m)
  \/ \E m \in InFlight : ServeInsert(m)
  \/ \E m \in InFlight : ServeRefused(m)
  \/ \E m \in InFlight : DashFetchDone(m)
  \/ \E m \in InFlight : LeadsFetchDone(m)
  \/ \E m \in InFlight : ContactsFetchDone(m)
  \/ \E m \in InFlight : DetailsLeadFetched(m)
  \/ \E m \in InFlight : DetailsActivitiesFetched(m)
  \/ Idle /\ AddActivity
  \/ \E m \in InFlight : ActivityInserted(m)
  \/ \E m \in InFlight : ActivitiesRefreshed(m)
  \/ \E m \in InFlight : NewContactLeadsFetched(m)
  \/ Idle /\ \E leadId \in 0..MaxIds : SubmitNewContact(leadId)
  \/ \E m \in InFlight : NewContactDone(m)
  \/ Idle /\ \E table \in {"contacts", "activities"}, leadId \in 0..MaxIds :
               DirectInsert(table, leadId)
  \/ \E m \in InFlight : DirectInsertDone(m)

SpecOptional == InitRefs /\ [][NextOptional]_vars

\* the inserts in flight, at the given stage, of a row of table without a lead
InsertsWithoutLead(table, stage) ==
  {m \in InFlight : /\ m.op = "insert" /\ m.table = table /\ m.stage = stage
                    /\ m.payload.lead_id = NoLead}

\* C13 as stated: both references are optional: the database accepts a contact
\* and an activity whose lead_id is null.
C13_BothReferencesOptional ==
  \A table \in {"contacts", "activities"} :
    \A m \in InsertsWithoutLead(table, "req") : ~ENABLED ServeRefused(m)

\* C13, amended: only the reference of a contact is optional: the database
\* accepts a contact whose lead_id is null and stores it while ids are left; it
\* refuses an activity whose lead_id is null, so every stored activity has a lead.
C13_OnlyContactReferenceOptional ==
  /\ \A m \in InsertsWithoutLead("contacts", "req") :
       /\ ~ENABLED ServeRefused(m)
       /\ nextId < MaxIds => ENABLED ServeInsert(m)
  /\ \A m \in InsertsWithoutLead("activities", "req") :
       ENABLED ServeRefused(m) /\ ~ENABLED ServeInsert(m)
  /\ \A m \in InsertsWithoutLead("activities", "resp") : ~m.ok
  /\ \A i \in DOMAIN rowsTbl : rowsTbl[i].table = "activities" => rowsTbl[i].lead_id # NoLead

\* a contact without a lead is stored and an activity without a lead was refused
C13_Witness ==
  /\ \E i \in DOMAIN rowsTbl : rowsTbl[i] = OtherRow("contacts", "u1", NoLead, FALSE)
  /\ InsertsWithoutLead("activities", "resp") # {}

(***************************************************************************)
(* Deleting: user u1 creates a contact and a form and deletes leads,        *)
(* contacts and forms from every page that offers it.                       *)
(***************************************************************************)
NextDeletes ==
  \/ SignIn("u1")
  \/ Idle /\ \E p \in {"leads", "leadDetails", "contacts", "contactDetails", "newContact",
                        "forms"} :
               \E q \in RouteParams(p) : Navigate(p, q)
  \/ \E m \in InFlight : ServeSelect(m)
  \/ \E m \in InFlight : ServeInsert(m)
  \/ \E m \in InFlight : ServeDelete(m)
  \/ \E m \in InFlight : ServeRefused(m)
  \/ \E m \in InFlight : DashFetchDone(m)
  \/ \E m \in InFlight : LeadsFetchDone(m)
  \/ Idle /\ \E id \in 1..MaxIds : ListDeleteLead(id)
  \/ \E m \in InFlight : ListDeleteLeadDone(m)
  \/ \E m \in InFlight : ContactsFetchDone(m)
  \/ Idle /\ \E id \in 1..MaxIds : ListDeleteContact(id)
  \/ \E m \in InFlight : ListDeleteContactDone(m)
  \/ \E m \in InFlight : DetailsLeadFetched(m)
  \/ \E m \in InFlight : DetailsActivitiesFetched(m)
  \/ Idle /\ \E accepted \in BOOLEAN : DetailsDeleteLead(accepted)
  \/ \E m \in InFlight : DetailsDeleteDone(m)
  \/ \E m \in InFlight : ContactFetched(m)
  \/ \E m \in InFlight : ContactLeadsFetched(m)
  \/ Idle /\ \E accepted \in BOOLEAN : ContactDelete(accepted)
  \/ \E m \in InFlight : ContactDeleteDone(m)
  \/ \E m \in InFlight : FormsFetchDone(m)
  \/ Idle /\ CreateForm
  \/ \E m \in InFlight : CreateFormDone(m)
  \/ Idle /\ \E id \in 1..MaxIds, accepted \in BOOLEAN : DeleteForm(id, accepted)
  \/ \E m \in InFlight : DeleteFormDone(m)
  \/ \E m \in InFlight : NewContactLeadsFetched(m)
  \/ Idle /\ \E leadId \in 0..MaxIds : SubmitNewContact(leadId)
  \/ \E m \in InFlight : NewContactDone(m)

SpecDeletes == InitRefs /\ [][NextDeletes]_vars

\* the prompts of the delete handlers
ConfirmPrompts ==
  Confirm("Are you sure you want to delete this lead?")
    \cup Confirm("Are you sure you want to delete this contact?")
    \cup Confirm("Are you sure you want to delete this form?")

\* C14: every delete action asks for confirmation first: a step that sends a
\* delete request is a step of a handler that has shown its prompt and was
\* answered yes.
C14_DeletesAreConfirmed ==
  [][\A m \in BagToSet(Issued) :
       m.op = "delete" /\ m.stage = "req" /\ m.live => fx' \cap ConfirmPrompts # {}]_vars

(***************************************************************************)
(* Failures: user u1 uses every page, one operation at a time, and any      *)
(* request may fail.                                                        *)
(***************************************************************************)
NextFailures ==
  \/ SignIn("u1")
  \/ Idle /\ \E p \in Pages : \E q \in RouteParams(p) : Navigate(p, q)
  \/ \E m \in InFlight : ServeSelect(m)
  \/ \E m \in InFlight : ServeUpdate(m)
  \/ \E m \in InFlight : ServeInsert(m)
  \/ \E m \in InFlight : ServeDelete(m)
  \/ \E m \in InFlight : ServeError(m)
  \/ \E m \in InFlight : DashFetchDone(m)
  \/ \E m \in InFlight : DealsFetchDone(m)
  \/ Idle /\ \E leadId \in 1..MaxIds : HandleDrop(leadId, "Qualified")
  \/ \E m \in InFlight : UpdateLeadStatusDone(m)
  \/ Idle /\ SetFilterStatus("Paid")
  \/ \E m \in InFlight : LeadsFetchDone(m)
  \/ Idle /\ \E id \in 1..MaxIds : ListDeleteLead(id)
  \/ \E m \in InFlight : ListDeleteLeadDone(m)
  \/ \E m \in InFlight : ContactsFetchDone(m)
  \/ Idle /\ \E id \in 1..MaxIds : ListDeleteContact(id)
  \/ \E m \in InFlight : ListDeleteContactDone(m)
  \/ Idle /\ SubmitNewLead(StatusChoice("New Lead"))
  \/ \E m \in InFlight : NewLeadDone(m)
  \/ \E m \in InFlight : DetailsLeadFetched(m)
  \/ \E m \in InFlight : DetailsActivitiesFetched(m)
  \/ Idle /\ SubmitDetails(StatusChoice("Paid"))
  \/ \E m \in InFlight : DetailsSaveDone(m)
  \/ Idle /\ AddActivity
  \/ \E m \in InFlight : ActivityInserted(m)
  \/ \E m \in InFlight : ActivitiesRefreshed(m)
  \/ Idle /\ DetailsDeleteLead(TRUE)
  \/ \E m \in InFlight : DetailsDeleteDone(m)
  \/ \E m \in InFlight : ContactFetched(m)
  \/ \E m \in InFlight : ContactLeadsFetched(m)
  \/ Idle /\ \E leadId \in 0..MaxIds : SubmitContact(leadId)
  \/ \E m \in InFlight : ContactSaveDone(m)
  \/ Idle /\ ContactDelete(TRUE)
  \/ \E m \in InFlight : ContactDeleteDone(m)
  \/ \E m \in InFlight : FormsFetchDone(m)
  \/ Idle /\ CreateForm
  \/ \E m \in InFlight : CreateFormDone(m)
  \/ Idle /\ \E id \in 1..MaxIds : DeleteForm(id, TRUE)
  \/ \E m \in InFlight : DeleteFormDone(m)
  \/ \E m \in InFlight : NewContactLeadsFetched(m)
  \/ Idle /\ \E leadId \in 0..MaxIds : SubmitNewContact(leadId)
  \/ \E m \in InFlight : NewContactDone(m)

SpecFailures == InitRefs /\ [][NextFailures]_vars

\* the responses whose continuation runs in the step
Delivered ==
  {m \in Taken : m.stage = "resp" /\ [m EXCEPT !.live = FALSE] \notin Answered}

\* the error toasts of the pages
ErrorToasts ==
  {"toast.error: " \o toasted : toasted \in
     {"Failed to load leads", "Failed to update lead status", "Failed to delete lead",
      "Failed to load contacts", "Failed to delete contact", "Failed to create lead",
      "Failed to load lead details", "Failed to update lead", "Failed to add activity",
      "Failed to load forms", "Failed to create form", "Failed to delete form",
      "Failed to create contact", "Failed to load contact details",
      "Failed to update contact"}}

\* C15: every failed data operation is caught, logged to the console and
\* surfaced as an error toast: the step that handles a failed response leaves
\* a console line and an error toast.
C15_FailuresLoggedAndToasted ==
  [][\A m \in Delivered :
       ~m.ok => (fx' \cap ErrorToasts # {} /\ fx' \ ErrorToasts # {})]_vars

(***************************************************************************)
(* Loading a detail page: user u1 opens lead and contact detail pages, of   *)
(* rows that exist or not, leaves them at any moment, and any select fails. *)
(***************************************************************************)
NextDetailLoad ==
  \/ SignIn("u1")
  \/ SignOut
  \/ \E p \in {"leadDetails", "contactDetails", "forms"} :
       \E q \in RouteParams(p) : Navigate(p, q)
  \/ \E m \in InFlight : ServeSelect(m)
  \/ \E m \in InFlight : ServeError(m)
  \/ \E m \in InFlight : DashFetchDone(m)
  \/ \E m \in InFlight : FormsFetchDone(m)
  \/ \E m \in InFlight : LeadsFetchDone(m)
  \/ \E m \in InFlight : ContactsFetchDone(m)
  \/ \E m \in InFlight : DetailsLeadFetched(m)
  \/ \E m \in InFlight : DetailsActivitiesFetched(m)
  \/ \E m \in InFlight : ContactFetched(m)
  \/ \E m \in InFlight : ContactLeadsFetched(m)

SpecDetailLoad == InitRefs /\ [][NextDetailLoad]_vars

\* C16: if loading a detail page fails (the lead or contact row, or the
\* activities, cannot be fetched) the signed-in user is navigated back to the
\* list view, /leads or /contacts, and the handler ends with loading set to
\* false: no detail page is left behind in its loading state.
C16_FailedDetailLoadReturnsToList ==
  [][\A m \in Delivered :
       ~m.ok /\ user # NoUser =>
         /\ m.origin \in {"details.fetchLead", "details.fetchActivities"} =>
              page' = "leads" /\ SetLoading(FALSE) \subseteq fx' /\ details' = DetailsInit
         /\ m.origin = "contact.fetchContactDetails" =>
              page' = "contacts" /\ SetLoading(FALSE) \subseteq fx' /\ contact' = ContactInit]_vars

\* the fetch of a lead detail page has just failed and the list of leads is shown
C16_Witness ==
  /\ user = "u1"
  /\ page = "leads"
  /\ details = DetailsInit
  /\ fx = LogAndToast("Error fetching lead details", "Failed to load lead details")
            \cup SetLoading(FALSE)

(***************************************************************************)
(* The new-lead form: a user opens it, submits it, and may leave for the    *)
(* board while the insert is pending; the insert may fail.                  *)
(***************************************************************************)
NextNewLead ==
  \/ \E uid \in Users : SignIn(uid)
  \/ \E p \in {"newLead", "deals"} : Navigate(p, 0)
  \/ \E m \in InFlight : ServeSelect(m)
  \/ \E m \in InFlight : ServeInsert(m)
  \/ \E m \in InFlight : ServeError(m)
  \/ \E m \in InFlight : DashFetchDone(m)
  \/ \E m \in InFlight : DealsFetchDone(m)
  \/ \E m \in InFlight : LeadsFetchDone(m)
  \/ \E status \in {"New Lead", "Paid"} : SubmitNewLead(StatusChoice(status))
  \/ \E m \in InFlight : NewLeadDone(m)

SpecNewLead == InitRefs /\ [][NextNewLead]_vars

\* the inserts of the new-lead form among the messages of a bag
NewLeadInserts(msgs) ==
  {m \in BagToSet(msgs) : m.origin = "newLead.onSubmit" /\ m.op = "insert" /\ m.table = "leads"}

\* C17: submitting the new-lead form while signed in issues exactly one insert
\* (and nothing else), which the database stores as one row; the page goes from
\* the form to /leads only in the step that handles the success of that
\* insert; on a failure the user stays on the form, is shown an error toast and
\* loading returns to false.
C17_OneInsertThenList ==
  [][/\ (page = "newLead" /\ ~busy.newLead /\ busy'.newLead) =>
          /\ user # NoUser
          /\ BagCardinality(Issued) = 1
          /\ NewLeadInserts(Issued) = BagToSet(Issued)
          /\ page' = "newLead"
     /\ \A m \in NewLeadInserts(net) \cap Taken :
          (m.stage = "req" /\ NewLeadInserts(net') \cap {r \in Answered : r.stage = "resp" /\ r.ok} # {}) =>
            /\ DOMAIN leadsTbl' = DOMAIN leadsTbl \cup {nextId + 1}
            /\ leadsTbl'[nextId + 1] = m.payload
            /\ \A i \in DOMAIN leadsTbl : leadsTbl'[i] = leadsTbl[i]
     /\ (page = "newLead" /\ page' = "leads") =>
          \E m \in NewLeadInserts(net) \cap Delivered : m.ok
     /\ \A m \in NewLeadInserts(net) \cap Delivered :
          /\ m.ok => page' = "leads" /\ fx' = Toast("Lead created successfully")
          /\ ~m.ok =>
               /\ page' = page
               /\ fx' = LogAndToast("Error creating lead", "Failed to create lead")
               /\ (m.live => page = "newLead" /\ ~busy'.newLead)]_vars

\* the form has just been submitted with success: the list of leads is shown
\* and the database holds the new lead
C17_Witness ==
  /\ page = "leads"
  /\ fx = Toast("Lead created successfully")
  /\ DOMAIN leadsTbl = {1, 2}
  /\ leadsTbl[2].user_id = user

(***************************************************************************)
(* Pending requests: the user moves between the dashboard and the leads     *)
(* list, changes the status filter and signs out while fetches are pending; *)
(* another session of the user changes a lead, which notifies the           *)
(* dashboard.                                                               *)
(***************************************************************************)
InitPending == Init /\ leadsTbl = SeedTable("u1")

NextPending ==
  \/ \E uid \in Users : SignIn(uid)
  \/ SignOut
  \/ \E p \in {"dashboard", "leads"} : Navigate(p, 0)
  \/ \E m \in InFlight : ServeSelect(m)
  \/ \E m \in InFlight : ServeError(m)
  \/ OtherSessionDrop(1, "Paid")
  \/ OnLeadsChange
  \/ \E m \in InFlight : DashFetchDone(m)
  \/ \E status \in {"", "Paid"} : SetFilterStatus(status)
  \/ \E m \in InFlight : LeadsFetchDone(m)

SpecPending == InitPending /\ [][NextPending]_vars

\* the request whose answer is the response r
RequestOf(r) == [r EXCEPT !.stage = "req", !.ok = TRUE, !.data = <<>>]

\* message m leaves the bag only as the same message of an unmounted component
OrphanedInStep(m) == m.live /\ [m EXCEPT !.live = FALSE] \in Answered

\* C18: in-flight requests are never cancelled.  No step takes a request out
\* of flight other than the database answering it, and no step takes a
\* response out of flight other than its continuation: a step that unmounts
\* the component (a page change, a sign-out) or starts a newer fetch of the
\* same page keeps every pending message, the cleanup only dropping the
\* realtime notifications.  The continuation of a fetch whose component is
\* still mounted sets the fetched rows and loading = false even when a newer
\* fetch of the page is pending or has been handled; the continuation of a
\* fetch whose component was unmounted still runs and still logs a failure,
\* its setters having no mounted component to change.
C18_RequestsNeverCancelled ==
  [][/\ \A m \in Taken :
          /\ (m.stage = "req") =>
                \/ OrphanedInStep(m)
                \/ \E r \in Answered : r.stage = "resp" /\ RequestOf(r) = m
          /\ (m.stage = "resp") => (OrphanedInStep(m) \/ m \in Delivered)
     /\ BagCardinality(net') >= BagCardinality(net) - 1
     /\ (page' # page \/ user' # user) =>
          /\ BagCardinality(net') >= BagCardinality(net)
          /\ notifs' = <<>>
          /\ \A m \in BagToSet(net') : m \in BagToSet(net) => ~m.live
     /\ \A m \in Delivered :
          /\ (m.origin = "leads.fetchLeads" /\ m.live) =>
                /\ ~lists'.loading
                /\ lists'.leads = IF m.ok THEN m.data ELSE lists.leads
          /\ (m.origin = "dash.fetchDashboardData" /\ m.live) =>
                /\ ~dash'.loading
                /\ m.ok => dash' = DashAfterFetch(variant, dash, m.data)
          /\ (~m.live) =>
                /\ lists' = lists /\ dash' = dash /\ page' = page
                /\ (~m.ok) => "console.error: " \o
                                (IF m.origin = "leads.fetchLeads"
                                 THEN "Error fetching forms"
                                 ELSE "Error fetching dashboard data") \in fx']_vars

\* the newer fetch of the leads list (status Paid) has been handled and the
\* answer of the superseded fetch (all leads) is still to be handled by the
\* mounted list
C18_Witness ==
  /\ page = "leads" /\ user = "u1"
  /\ lists.filterStatus = "Paid" /\ ~lists.loading
  /\ \A k \in 1..Len(lists.leads) : lists.leads[k].status = "Paid"
  /\ \E m \in InFlight :
       /\ m.origin = "leads.fetchLeads" /\ m.stage = "resp" /\ m.live /\ m.ok
       /\ \E k \in 1..Len(m.data) : m.data[k].status # "Paid"

(***************************************************************************)
(* The controls of the leads list: the search box, the status select, the   *)
(* column filters and the sort headers.                                     *)
(***************************************************************************)
InitListView == InitPending /\ variant = "A"

NextListView ==
  \/ SignIn("u1")
  \/ Navigate("leads", 0)
  \/ \E m \in InFlight : ServeSelect(m)
  \/ \E m \in InFlight : ServeError(m)
  \/ \E m \in InFlight : DashFetchDone(m)
  \/ \E m \in InFlight : LeadsFetchDone(m)
  \/ \E term \in {"", "web"} : SetSearchTerm(term)
  \/ \E status \in {"", "Paid"} : SetFilterStatus(status)
  \/ \E field \in {"created_at", "full_name"} : HandleSort(field)
  \/ \E value \in {"", "web"} : HandleFilterChange("source", value)

SpecListView == InitListView /\ [][NextListView]_vars

\* a step on the mounted leads list that changes the given control
SearchChanged == page = "leads" /\ page' = "leads" /\ lists'.searchTerm # lists.searchTerm
ColumnFilterChanged == page = "leads" /\ page' = "leads" /\ lists'.filters # lists.filters
SortChanged ==
  /\ page = "leads" /\ page' = "leads"
  /\ <<lists'.sortField, lists'.sortDirection>> # <<lists.sortField, lists.sortDirection>>
StatusFilterChanged ==
  page = "leads" /\ page' = "leads" /\ lists'.filterStatus # lists.filterStatus

\* the step sends nothing and keeps the fetched list and the database
LocalOnly ==
  /\ net' = net
  /\ lists'.leads = lists.leads
  /\ lists'.loading = lists.loading
  /\ leadsTbl' = leadsTbl /\ rowsTbl' = rowsTbl

\* C19 as stated: changing the search term, a column filter, the status filter
\* or the sort column/direction issues no database request and only re-derives
\* the displayed rows from the already fetched lead list.
C19_AllControlsLocal ==
  [][(SearchChanged \/ ColumnFilterChanged \/ SortChanged \/ StatusFilterChanged)
       => LocalOnly]_vars

\* C19, amended: changing the search term, a column filter or the sort
\* column/direction issues no database request and keeps the fetched list, the
\* displayed rows being re-derived from it; changing the status filter of a
\* signed-in user sets loading and issues exactly one select of the user's
\* leads restricted to the chosen status, in the current sort order.
C19_ControlsLocalButStatusFilter ==
  [][/\ (SearchChanged \/ ColumnFilterChanged \/ SortChanged) =>
          /\ LocalOnly
          /\ lists'.filterStatus = lists.filterStatus
          /\ DisplayedLeads' = SortLeads(FilteredLeads(lists.leads, lists'.searchTerm,
                                                       lists.filterStatus, lists'.filters),
                                         lists'.sortDirection)
     /\ (StatusFilterChanged /\ user # NoUser) =>
          /\ Issued = SetToBag({LeadsFetchRequest(user, lists'.filterStatus,
                                                  lists.sortField, lists.sortDirection)})
          /\ net (-) net' = EmptyBag
          /\ lists'.loading
          /\ lists'.leads = lists.leads
          /\ leadsTbl' = leadsTbl
     /\ (page = "leads" /\ page' = "leads" /\ \E m \in BagToSet(Issued) : m.stage = "req")
          => StatusFilterChanged]_vars

\* the status select was set to Paid on a searched, re-sorted and
\* column-filtered list, and the select it sent is in flight
C19_Witness ==
  /\ page = "leads" /\ lists.filterStatus = "Paid" /\ lists.loading
  /\ lists.searchTerm = "web" /\ lists.sortDirection = "asc"
  /\ "source" \in DOMAIN lists.filters
  /\ lists.leads # <<>>
  /\ net = SetToBag({LeadsFetchRequest(user, "Paid", lists.sortField, lists.sortDirection)})

(***************************************************************************)
(* The kanban board with overlapping drops: a card may be dropped while the *)
(* update of an earlier drop is pending; every request succeeds.            *)
(***************************************************************************)
NextDrops ==
  \/ SignIn("u1")
  \/ Navigate("deals", 0)
  \/ \E m \in InFlight : ServeSelect(m)
  \/ \E m \in InFlight : ServeUpdate(m)
  \/ \E m \in InFlight : DashFetchDone(m)
  \/ \E m \in InFlight : DealsFetchDone(m)
  \/ \E leadId \in {1, 2}, status \in {"Qualified", "Paid"} : HandleDrop(leadId, status)
  \/ \E m \in InFlight : UpdateLeadStatusDone(m)

SpecDrops == InitListView /\ [][NextDrops]_vars

\* C20: for any interleaving of kanban drops, once all update requests have
\* succeeded and none is pending, the status shown in the local lead list
\* equals the status stored in the database, for every lead of the list.
C20_BoardMatchesDatabaseWhenSettled ==
  (page = "deals" /\ ~deals.loading /\ net = EmptyBag) =>
    \A k \in 1..Len(deals.leads) :
      /\ deals.leads[k].id \in DOMAIN leadsTbl
      /\ deals.leads[k].status = leadsTbl[deals.leads[k].id].status

(***************************************************************************)
(* The leads list with overlapping fetches: the status select may be        *)
(* changed while earlier fetches are pending; every request succeeds and    *)
(* nothing else writes to the database.                                     *)
(***************************************************************************)
NextListRaces ==
  \/ SignIn("u1")
  \/ Navigate("leads", 0)
  \/ \E m \in InFlight : ServeSelect(m)
  \/ \E m \in InFlight : DashFetchDone(m)
  \/ \E m \in InFlight : LeadsFetchDone(m)
  \/ \E term \in {"", "web"} : SetSearchTerm(term)
  \/ \E status \in {"", "Paid"} : SetFilterStatus(status)
  \/ \E value \in {"", "web"} : HandleFilterChange("source", value)

SpecListRaces == InitListView /\ [][NextListRaces]_vars

\* the ids of the rows of a list
IdsOf(leads) == {leads[k].id : k \in 1..Len(leads)}

\* C21: once every fetch triggered by the status select has completed, the
\* displayed rows are exactly the user's leads in the database that match the
\* selected status and the search and column filters, whatever the order in
\* which the answers arrived.
C21_DisplayedRowsMatchDatabase ==
  (page = "leads" /\ user # NoUser /\ ~lists.loading /\ net = EmptyBag) =>
    IdsOf(DisplayedLeads) =
      IdsOf(FilteredLeads(SelectRows(leadsTbl, user, [user_id |-> user], TRUE),
                          lists.searchTerm, lists.filterStatus, lists.filters))

(***************************************************************************)
(* The activities of a lead: the user opens the detail view of the stored   *)
(* lead, adds activities and clicks their completion buttons, and may      *)
(* leave for the board meanwhile; a request may fail.                       *)
(***************************************************************************)
NextActivities ==
  \/ SignIn("u1")
  \/ \E p \in {"leadDetails", "deals"} : Navigate(p, IF p = "leadDetails" THEN 1 ELSE 0)
  \/ \E m \in InFlight : ServeSelect(m)
  \/ \E m \in InFlight : ServeInsert(m)
  \/ \E m \in InFlight : ServeUpdate(m)
  \/ \E m \in InFlight : ServeError(m)
  \/ \E m \in InFlight : DashFetchDone(m)
  \/ \E m \in InFlight : DealsFetchDone(m)
  \/ \E m \in InFlight : DetailsLeadFetched(m)
  \/ \E m \in InFlight : DetailsActivitiesFetched(m)
  \/ Idle /\ AddActivity
  \/ \E m \in InFlight : ActivityInserted(m)
  \/ \E m \in InFlight : ActivitiesRefreshed(m)
  \/ \E id \in 1..MaxIds : ToggleActivityCompletion(id)
  \/ \E m \in InFlight : ToggleActivityDone(m)

SpecActivities == InitRefs /\ [][NextActivities]_vars

\* the completion updates among the messages of a set
CompletionUpdates(msgs) == {m \in msgs : m.origin = "details.toggleActivityCompletion"}

\* C22: a click on the completion button of an activity flips its completed
\* flag: when the update is served the stored value becomes the negation of
\* the stored value before, when the success is handled the shown value
\* becomes the negation of the value shown before, and no other activity
\* changes, stored or shown.
C22_ClickFlipsCompleted ==
  [][\A m \in CompletionUpdates(Taken) :
       /\ (m.stage = "req" /\ \E r \in Answered : r.stage = "resp" /\ r.ok) =>
            /\ DOMAIN rowsTbl' = DOMAIN rowsTbl
            /\ \A i \in DOMAIN rowsTbl :
                 rowsTbl'[i] = IF i = m.filter.id
                               THEN [rowsTbl[i] EXCEPT !.completed = ~rowsTbl[i].completed]
                               ELSE rowsTbl[i]
       /\ (m \in Delivered /\ m.ok /\ m.live) =>
            \A k \in 1..Len(details.activities) :
              details'.activities[k] =
                IF details.activities[k].id = m.filter.id
                THEN [details.activities[k] EXCEPT
                        !.completed = ~details.activities[k].completed]
                ELSE details.activities[k]]_vars

\* the sum of a sequence of numbers
RECURSIVE SumOf(_)
SumOf(numbers) == IF numbers = <<>> THEN 0 ELSE Head(numbers) + SumOf(Tail(numbers))

\* C23: every lead of the board's fetched list is shown in exactly one
\* column, so the per-column counts sum to the number of fetched leads, for
\* every status the new-lead form or the detail view can give a lead.
C23_EveryLeadInOneColumn ==
  (page = "deals" /\ ~deals.loading) =>
    /\ \A k \in 1..Len(deals.leads) :
         Cardinality({c \in 1..Len(DealsStatuses) :
                        \E j \in 1..Len(ColumnLeads(deals.leads, DealsStatuses[c])) :
                          ColumnLeads(deals.leads, DealsStatuses[c])[j].id = deals.leads[k].id}) = 1
    /\ SumOf(ColumnCounts(deals.leads)) = Len(deals.leads)

\* C24: the dashboard's status categories agree with the statuses the UI
\* writes.  When a dashboard handles a successful fetch of the list Ls, the
\* counter of each of the seven statuses is the number of leads of Ls with
\* that status, revenueGenerated is the revenue of the Paid leads,
\* potentialRevenue includes the revenue of the Qualified leads, and with a
\* Paid lead in Ls neither the paid count nor the conversion rate of the
\* dashboard of part_005:521-607 is 0.
C24_CountersFollowWrittenStatuses ==
  [][\A m \in InFlight :
       (DashFetchDone(m) /\ m.ok /\ m.live) =>
         LET Ls == m.data
             st == dash'.stats
         IN  /\ \A s \in Range(NewLeadStatuses) :
                   st[CounterOf[s]] = Cardinality(Having(Ls, {s}))
             /\ st.revenueGenerated = RevenueOver(Ls, Having(Ls, {"Paid"}))
             /\ st.potentialRevenue >= RevenueOver(Ls, Having(Ls, {"Qualified"}))
             /\ (Having(Ls, {"Paid"}) # {}) =>
                   /\ st.paidLeads > 0
                   /\ (variant = "B" => st.conversionRate[1] > 0)]_vars

(***************************************************************************)
(* The revenue filter of the leads table: an operator and an amount.        *)
(***************************************************************************)
NextRevenueFilter ==
  \/ SignIn("u1")
  \/ Navigate("leads", 0)
  \/ \E m \in InFlight : ServeSelect(m)
  \/ \E m \in InFlight : DashFetchDone(m)
  \/ \E m \in InFlight : LeadsFetchDone(m)
  \/ \E term \in {"", "web"} : SetSearchTerm(term)
  \/ \E field \in {"revenue_operator", "revenue"} : \E value \in FilterInputs(field) :
       HandleFilterChange(field, value)

SpecRevenueFilter == InitListView /\ [][NextRevenueFilter]_vars

\* the chosen filter of a column, '' when none was entered
FilterOf(filters, field) == IF field \in DOMAIN filters THEN filters[field] ELSE ""

\* the comparison the revenue filter stands for
RevenueCompares(lead, operator, amount) ==
  \/ amount = ""
  \/ /\ lead.revenue # NoNumber
     /\ CASE operator = "gt" -> lead.revenue[1] > ParseFloat(amount)
          [] operator = "lt" -> lead.revenue[1] < ParseFloat(amount)
          [] OTHER           -> lead.revenue[1] = ParseFloat(amount)

\* C25: the revenue filter compares each lead's revenue with the entered
\* amount by the chosen operator: the displayed rows are the leads that pass
\* the search and the other filters and whose revenue is equal to, greater
\* than or less than the amount; with an empty amount no lead is hidden,
\* whatever the operator.
C25_RevenueFilterCompares ==
  (page = "leads" /\ ~lists.loading) =>
    LET others == [f \in DOMAIN lists.filters \ {"revenue_operator", "revenue"} |->
                     lists.filters[f]]
        passing == FilteredLeads(lists.leads, lists.searchTerm, lists.filterStatus, others)
    IN  IdsOf(DisplayedLeads) =
          {passing[k].id : k \in {j \in 1..Len(passing) :
             RevenueCompares(passing[j], FilterOf(lists.filters, "revenue_operator"),
                             FilterOf(lists.filters, "revenue"))}}

\* C26: every stored contact whose lead_id is not null references a lead
\* owned by the user who owns the contact.
C26_ContactLeadOfSameOwner ==
  \A i \in DOMAIN rowsTbl :
    (rowsTbl[i].table = "contacts" /\ rowsTbl[i].lead_id # NoLead) =>
      /\ rowsTbl[i].lead_id \in DOMAIN leadsTbl
      /\ leadsTbl[rowsTbl[i].lead_id].user_id = rowsTbl[i].user_id

(***************************************************************************)
(* Routes: any path may be opened at any moment, signed in or not, while    *)
(* the fetches of the pages are pending; a fetch may fail.                  *)
(***************************************************************************)
NextRoutes ==
  \/ SignIn("u1")
  \/ SignOut
  \/ \E path \in Paths : OpenPath(path, IF path \in {"/leads/:id", "/contacts/:id"} THEN 1 ELSE 0)
  \/ \E m \in InFlight : ServeSelect(m)
  \/ \E m \in InFlight : ServeError(m)
  \/ \E m \in InFlight : DashFetchDone(m)
  \/ \E m \in InFlight : LeadsFetchDone(m)
  \/ \E m \in InFlight : DealsFetchDone(m)
  \/ \E m \in InFlight : ContactsFetchDone(m)
  \/ \E m \in InFlight : FormsFetchDone(m)
  \/ \E m \in InFlight : DetailsLeadFetched(m)
  \/ \E m \in InFlight : DetailsActivitiesFetched(m)
  \/ \E m \in InFlight : NewContactLeadsFetched(m)
  \/ \E m \in InFlight : ContactFetched(m)
  \/ \E m \in InFlight : ContactLeadsFetched(m)

SpecRoutes == InitListView /\ [][NextRoutes]_vars

\* path was opened in this step
Opened(path) == \E q \in 0..MaxIds : OpenPath(path, q)

\* C27: route guarding.  With no user signed in only /login or /register is
\* rendered, every protected path redirects to /login and opening it ends at
\* the login page; with a user signed in /login and /register redirect to /
\* and opening them ends at the dashboard, and a protected path renders its
\* page; a path that matches no route redirects to /.
C27_RoutesAreGuarded ==
  [][/\ (user' = NoUser) => page' \in {"login", "register"}
     /\ (user' # NoUser) => page' \in Pages
     /\ \A path \in Paths :
          /\ (path \in ProtectedPaths) =>
                RouteElement(path, NoUser) = [redirect |-> "/login"]
          /\ (path \in {"/login", "/register"}) =>
                \A uid \in Users : RouteElement(path, uid) = [redirect |-> "/"]
          /\ (path \notin ProtectedPaths \cup {"/login", "/register"}) =>
                \A uid \in Users \cup {NoUser} : RouteElement(path, uid) = [redirect |-> "/"]
          /\ Opened(path) =>
                page' = IF user = NoUser
                        THEN (IF path = "/register" THEN "register" ELSE "login")
                        ELSE (IF path \in ProtectedPaths THEN PageOf(path) ELSE "dashboard")]_vars

\* after a sign-out on the leads list, whose fetch is still pending, the
\* browser has opened /register: no protected page is rendered
C27_Witness ==
  /\ user = NoUser /\ page = "register"
  /\ \E m \in InFlight : m.origin = "leads.fetchLeads" /\ ~m.live
  /\ lists = ListsInit /\ dash = DashInit(variant)

\* a fetch of the mounted page is pending: sent and not yet handled
Fetching(origin) == \E m \in InFlight : m.live /\ m.origin = origin

\* C28: on the leads list, the board and the dashboard of a signed-in user
\* the loading flag is true exactly while at least one fetch of the page is
\* in flight.
C28_LoadingExactlyWhileFetching ==
  (user # NoUser) =>
    /\ (page = "leads") => (lists.loading <=> Fetching("leads.fetchLeads"))
    /\ (page = "deals") => (deals.loading <=> Fetching("deals.fetchLeads"))
    /\ (page = "dashboard") => (dash.loading <=> Fetching("dash.fetchDashboardData"))

====
